---- MODULE Spec2Model ----
(***************************************************************************)
(* Model of the triedent copy-on-write radix trie (database.hpp) on top of *)
(* the object-id directory (object_db.hpp).                                *)
(*                                                                         *)
(* The heap is the id directory plus the node each live id locates:        *)
(*   objs[id] = [t |-> "free",  ref |-> 0, next]                           *)
(*            | [t |-> "leaf",  ref, key, data]                            *)
(*            | [t |-> "inner", ref, key, val, br, ver]                    *)
(* where key is a sequence of 6-bit characters, data a sequence of bytes,  *)
(* val an id (0 = null) and br a function from the set bits of the         *)
(* branches bitmap to child ids.  Operators that allocate or release take  *)
(* a heap h = [o, ff, ma] (slots, first_free, max_allocated) and return    *)
(* the heap they leave behind.                                             *)
(***************************************************************************)
EXTENDS Integers, Sequences, FiniteSets, TLC

VARIABLES objs, first_free, max_allocated,   \* object_db: slots, free list head, high-water mark
          session_root, version,             \* write_session::_session_root, _version
          root_revision,                     \* database_memory::_root_revision
          readers,                           \* read sessions: [open, root, pins]
          kv,                                \* ghost: the key -> value map the writer built
          snap,                              \* ghost: what each reader's root held when pinned
          last,                              \* the last writer call: [op, key, val, ret, want]
          itr,                               \* the iterator: [mode, arg, path, seen, vals]
          steps,                             \* number of calls made so far
          probe,                             \* key-encoding round trip: [pc, k8, k6, back]
          dir,                               \* the id-directory file, slot by slot
          thr,                               \* the threads that call into the directory
          gc,                                \* the process that runs the mark-and-sweep
          ra                                 \* the region allocator, its file and its thread

vars == <<objs, first_free, max_allocated, session_root, version, root_revision,
          readers, kv, snap, last, itr, steps, probe, dir, thr, gc, ra>>

-----------------------------------------------------------------------------
(* Bounds *)

MaxId == 16
MaxOps == 3
MaxPins == 1
MaxProbeLen == 5

(* Program constants *)

ref_count_mask == 8191

(* The 8-bit keys and the values the calls draw from.  The keys are chosen *)
(* so that the trie reaches three levels of inner nodes, holds a key in an *)
(* inner node's value slot, and holds an 8-bit prefix (<<0>>) of a key     *)
(* (<<0,16>>) whose 6-bit encoding is not a prefix of the other's.         *)
Keys == { <<0>>, <<0,0>>, <<0,1>>, <<0,16>>, <<4,0>> }
Values == { <<1>>, <<2>>, <<3,3>> }
ProbeBytes == {0, 1, 97, 130, 255}
Readers == {1}
NoValue == <<-1>>
Garbage == <<-2>>

-----------------------------------------------------------------------------
(* Small helpers on sequences and sets *)

Min(S) == CHOOSE x \in S : \A y \in S : x <= y
Max(S) == CHOOSE x \in S : \A y \in S : y <= x

Tail2(s, n) == SubSeq(s, n + 1, Len(s))

RECURSIVE SeqLess(_, _)
(* std::string_view operator< : lexicographic, a proper prefix is smaller *)
SeqLess(a, b) ==
    IF b = <<>> THEN FALSE
    ELSE IF a = <<>> THEN TRUE
    ELSE IF a[1] # b[1] THEN a[1] < b[1]
    ELSE SeqLess(Tail(a), Tail(b))

SeqLeq(a, b) == a = b \/ SeqLess(a, b)

IsPrefix(p, s) == Len(p) <= Len(s) /\ SubSeq(s, 1, Len(p)) = p

RECURSIVE SortKeys(_)
(* the elements of a set of sequences in ascending lexicographic order *)
SortKeys(S) ==
    IF S = {} THEN <<>>
    ELSE LET m == CHOOSE x \in S : \A y \in S : SeqLeq(x, y)
         IN  <<m>> \o SortKeys(S \ {m})

RECURSIVE SetToSeq(_)
(* the elements of a set of integers in ascending order *)
SetToSeq(S) == IF S = {} THEN <<>> ELSE <<Min(S)>> \o SetToSeq(S \ {Min(S)})

RECURSIVE BitOr(_, _)
(* the C operator | on non-negative integers *)
BitOr(a, b) ==
    IF a = 0 THEN b
    ELSE IF b = 0 THEN a
    ELSE 2 * BitOr(a \div 2, b \div 2) + (IF a % 2 = 1 \/ b % 2 = 1 THEN 1 ELSE 0)

-----------------------------------------------------------------------------
(* Key encoding: database.hpp to_key6 / from_key6 *)

RECURSIVE to_key6_shift2(_)
(* to_key6 that shifts the two low bits of the last byte by 2, not by 4 *)
to_key6_shift2(v) ==
    IF Len(v) >= 3 THEN
        << v[1] \div 4,
           BitOr((v[1] % 4) * 16, v[2] \div 16),
           BitOr((v[2] % 16) * 4, v[3] \div 64),
           v[3] % 64 >> \o to_key6_shift2(Tail2(v, 3))
    ELSE IF Len(v) = 2 THEN
        << v[1] \div 4, BitOr((v[1] % 4) * 16, v[2] \div 16), (v[2] % 16) * 4 >>
    ELSE IF Len(v) = 1 THEN
        << v[1] \div 4, (v[1] % 4) * 4 >>
    ELSE <<>>

RECURSIVE to_key6(_)
to_key6(v) ==
    IF Len(v) >= 3 THEN
        << v[1] \div 4,
           BitOr((v[1] % 4) * 16, v[2] \div 16),
           BitOr((v[2] % 16) * 4, v[3] \div 64),
           v[3] % 64 >> \o to_key6(Tail2(v, 3))
    ELSE IF Len(v) = 2 THEN
        << v[1] \div 4, BitOr((v[1] % 4) * 16, v[2] \div 16), (v[2] % 16) * 4 >>
    ELSE IF Len(v) = 1 THEN
        << v[1] \div 4, (v[1] % 4) * 16 >>
    ELSE <<>>

RECURSIVE from_key6_bytes(_)
(* the bytes from_key6 writes, before the result is cut to its size *)
from_key6_bytes(s) ==
    IF Len(s) >= 4 THEN
        << BitOr((s[1] * 4) % 256, s[2] \div 16),
           BitOr((s[2] * 16) % 256, s[3] \div 4),
           BitOr((s[3] * 64) % 256, s[4]) % 256 >> \o from_key6_bytes(Tail2(s, 4))
    ELSE IF Len(s) = 3 THEN
        << BitOr((s[1] * 4) % 256, s[2] \div 16), BitOr((s[2] * 16) % 256, s[3] \div 4) >>
    ELSE IF Len(s) = 2 THEN
        << BitOr((s[1] * 4) % 256, s[2] \div 16) >>
    ELSE IF Len(s) = 1 THEN
        << (s[1] * 4) % 256 >>
    ELSE <<>>

from_key6(sixb) ==
    LET n == (Len(sixb) * 6) \div 8
        w == from_key6_bytes(sixb)
    IN  SubSeq(w, 1, n)

-----------------------------------------------------------------------------
(* Object-id directory: object_db.hpp *)

FreeSlot(next) == [t |-> "free", ref |-> 0, next |-> next]

(* object_db::alloc: pop the free list, else take the id above the         *)
(* high-water mark; the slot gets refcount 1.  n is the node written there *)
alloc(h, n) ==
    IF h.ff = 0 THEN
        [h  |-> [o |-> (h.ma + 1 :> n) @@ h.o, ff |-> 0, ma |-> h.ma + 1],
         id |-> h.ma + 1]
    ELSE
        [h  |-> [o |-> [h.o EXCEPT ![h.ff] = n], ff |-> h.o[h.ff].next, ma |-> h.ma],
         id |-> h.ff]

(* object_db::bump_count *)
bump_count(h, id) ==
    IF h.o[id].ref = ref_count_mask - 1 THEN h
    ELSE [h EXCEPT !.o[id].ref = @ + 1]

(* object_db::release: decrement; at zero the slot becomes the head of the *)
(* free list.  Decrementing a zero refcount wraps to all ones.             *)
release(h, id) ==
    LET n == h.o[id] IN
    IF n.ref = 0 THEN [h EXCEPT !.o[id].ref = ref_count_mask]
    ELSE IF n.ref = 1 THEN [h EXCEPT !.o[id] = FreeSlot(h.ff), !.ff = id]
    ELSE [h EXCEPT !.o[id].ref = @ - 1]

(* object_db::ref *)
ref(h, id) == h.o[id].ref

(* session::retain *)
retain(h, id) == IF id = 0 THEN h ELSE bump_count(h, id)

RECURSIVE db_release(_, _)
RECURSIVE release_children(_, _)
(* database::release: release the id and, when that freed an inner node,   *)
(* its value and its children                                              *)
db_release(h, id) ==
    IF id = 0 THEN h
    ELSE LET n == h.o[id]
         IN  IF n.ref = 1 /\ n.t = "inner"
             THEN release_children(db_release(release(h, id), n.val),
                                   [i \in 1..Cardinality(DOMAIN n.br) |->
                                       n.br[SetToSeq(DOMAIN n.br)[i]]])
             ELSE release(h, id)

release_children(h, ids) ==
    IF ids = <<>> THEN h
    ELSE release_children(db_release(h, ids[1]), Tail(ids))

-----------------------------------------------------------------------------
(* Nodes: node.hpp is not part of the sources; these follow the data model *)
(* of the specification and the way database.hpp uses them.                *)

Leaf(key, data) == [t |-> "leaf", ref |-> 1, key |-> key, data |-> data]

Inner(key, val, br, ver) ==
    [t |-> "inner", ref |-> 1, key |-> key, val |-> val, br |-> br, ver |-> ver]

has_branch(n, b) == b \in DOMAIN n.br

num_branches(n) == Cardinality(DOMAIN n.br)

(* inner_node::lower_bound: the first set branch >= b, 64 when none *)
lower_bound_branch(n, b) ==
    IF \E x \in DOMAIN n.br : x >= b THEN Min({x \in DOMAIN n.br : x >= b}) ELSE 64

(* inner_node::reverse_lower_bound: the last set branch <= b, -1 when none *)
reverse_lower_bound(n, b) ==
    IF \E x \in DOMAIN n.br : x <= b THEN Max({x \in DOMAIN n.br : x <= b}) ELSE -1

(* value_node::make *)
make_value(h, key, val) == alloc(h, Leaf(key, val))

(* inner_node::make(prefix, val, branches, version): children start null *)
make_inner(h, pre, val, branches, ver) ==
    alloc(h, Inner(pre, val, [b \in branches |-> 0], ver))

(* inner_node::make(cpy, prefix, val, branches, version): the branches it  *)
(* has in common with cpy share cpy's children, each retained once         *)
make_inner_copy(h, cpy, pre, val, branches, ver) ==
    LET br == [b \in branches |-> IF b \in DOMAIN cpy.br THEN cpy.br[b] ELSE 0]
        common == SetToSeq(branches \cap DOMAIN cpy.br)
        RECURSIVE bump(_, _)
        bump(g, i) == IF i > Len(common) THEN g
                      ELSE bump(retain(g, cpy.br[common[i]]), i + 1)
    IN  alloc(bump(h, 1), Inner(pre, val, br, ver))

set_branch(h, id, b, child) == [h EXCEPT !.o[id].br[b] = child]

set_node_value(h, id, v) == [h EXCEPT !.o[id].val = v]

-----------------------------------------------------------------------------
(* Trie engine: database.hpp *)

RECURSIVE common_prefix(_, _)
common_prefix(a, b) ==
    IF a = <<>> \/ b = <<>> \/ a[1] # b[1] THEN <<>>
    ELSE <<a[1]>> \o common_prefix(Tail(a), Tail(b))

RECURSIVE get(_, _, _)
(* session::get(id root, string_view key): the value bytes or NoValue *)
get(h, root, key) ==
    IF root = 0 THEN NoValue
    ELSE LET n == h.o[root] IN
         IF n.t = "free" THEN Garbage   \* the id was freed: the read is of freed memory
         ELSE IF n.t = "leaf" THEN (IF n.key = key THEN n.data ELSE NoValue)
         ELSE IF Len(key) < Len(n.key) THEN NoValue
         ELSE IF key = n.key THEN (IF n.val = 0 THEN NoValue ELSE get(h, n.val, <<>>))
         ELSE IF common_prefix(key, n.key) # n.key THEN NoValue
         ELSE LET b == key[Len(n.key) + 1] IN
              IF ~has_branch(n, b) THEN NoValue
              ELSE get(h, n.br[b], Tail2(key, Len(n.key) + 1))

(* write_session::combine_value_nodes once k1 is the shorter key: [h, id].  *)
(* Each step takes the heap and ids the steps before it left.               *)
combine_ordered(h, ver, k1, v1, k2, v2) ==
         LET cpre == common_prefix(k1, k2) IN
         IF cpre = k1 THEN
             LET b2 == k2[Len(cpre) + 1]
                 link(in, lf) == [h |-> set_branch(lf.h, in.id, b2, lf.id), id |-> in.id]
                 with_in(in, iv) ==
                     link(in, make_value(set_node_value(in.h, in.id, iv.id),
                                         Tail2(k2, Len(cpre) + 1), v2))
                 with_iv(iv) == with_in(make_inner(iv.h, cpre, 0, {b2}, ver), iv)
             IN  with_iv(make_value(h, <<>>, v1))
         ELSE
             LET b1 == k1[Len(cpre) + 1]
                 b2 == k2[Len(cpre) + 1]
                 link(in, b1v, b2v) ==
                     [h  |-> set_branch(set_branch(in.h, in.id, b1, b1v.id), in.id, b2, b2v.id),
                      id |-> in.id]
                 with_b2v(b1v, b2v) == link(make_inner(b2v.h, cpre, 0, {b1, b2}, ver), b1v, b2v)
                 with_b1v(b1v) == with_b2v(b1v, make_value(b1v.h, Tail2(k2, Len(cpre) + 1), v2))
             IN  with_b1v(make_value(h, Tail2(k1, Len(cpre) + 1), v1))

(* combine_value_nodes that puts the shorter key first but leaves the       *)
(* values where they were                                                   *)
combine_value_nodes_values_kept(h, ver, k1, v1, k2, v2) ==
    IF Len(k1) > Len(k2)
    THEN combine_ordered(h, ver, k2, v1, k1, v2)
    ELSE combine_ordered(h, ver, k1, v1, k2, v2)

(* write_session::combine_value_nodes: the shorter key goes first *)
combine_value_nodes(h, ver, k1, v1, k2, v2) ==
    IF Len(k1) > Len(k2)
    THEN combine_ordered(h, ver, k2, v2, k1, v1)
    ELSE combine_ordered(h, ver, k1, v1, k2, v2)

(* set_value that finds the sizes equal and then copies nothing *)
set_value_unwritten(h, n, key, val) ==
    IF ref(h, n) = 1 /\ Len(h.o[n].data) = Len(val)
    THEN [h |-> h, id |-> n]
    ELSE make_value(h, key, val)

(* write_session::set_value on a leaf n (never null where it is called) *)
set_value(h, n, key, val) ==
    IF ref(h, n) = 1 /\ Len(h.o[n].data) = Len(val)
    THEN [h |-> [h EXCEPT !.o[n].data = val], id |-> n]
    ELSE make_value(h, key, val)

set_inner_value(h, ver, n, val) ==
    LET in == h.o[n]
        store(nv) == [h |-> set_node_value(nv.h, n, nv.id), id |-> n]
        copy(nv)  == make_inner_copy(nv.h, in, in.key, nv.id, DOMAIN in.br, ver)
    IN
    IF in.ver = ver THEN
        IF in.val # 0 THEN
            IF Len(h.o[in.val].data) = Len(val)
            THEN [h |-> [h EXCEPT !.o[in.val].data = val], id |-> n]
            ELSE store(make_value(release(h, in.val), <<>>, val))
        ELSE store(make_value(h, <<>>, val))
    ELSE copy(make_value(h, <<>>, val))

WithOld(r, old) == [h |-> r.h, id |-> r.id, old |-> old]

RECURSIVE add_child(_, _, _, _, _)
(* write_session::add_child: [h, id, old] with old the size it stored in   *)
(* old_size, -1 when it stored none                                        *)
add_child(h, ver, root, key, val) ==
    IF root = 0 THEN WithOld(make_value(h, key, val), -1)
    ELSE LET n == h.o[root] IN
    IF n.t = "leaf" THEN
        IF n.key # key
        THEN WithOld(combine_value_nodes(h, ver, n.key, n.data, key, val), -1)
        ELSE WithOld(set_value(h, root, key, val), Len(n.data))
    ELSE IF n.key = key THEN
        WithOld(set_inner_value(h, ver, root, val),
                IF n.val = 0 THEN -1 ELSE Len(h.o[n.val].data))
    ELSE LET cpre == common_prefix(n.key, key) IN
    IF cpre = n.key THEN
        LET b    == key[Len(cpre) + 1]
            rest == Tail2(key, Len(cpre) + 1)
            \* r is what add_child returned for the branch cur_b of node in
            update(in, cur_b, r) ==
                IF r.id # cur_b
                THEN [h   |-> set_branch(db_release(r.h, cur_b), in, b, r.id),
                      id  |-> in, old |-> r.old]
                ELSE [h |-> r.h, id |-> in, old |-> r.old]
            descend(g, in) ==
                update(in, g.o[in].br[b], add_child(g, ver, g.o[in].br[b], rest, val))
            into(new_in) == descend(new_in.h, new_in.id)
        IN  IF n.ver # ver \/ ~has_branch(n, b)
            THEN into(make_inner_copy(retain(h, n.val), n, n.key, n.val,
                                      DOMAIN n.br \cup {b}, ver))
            ELSE descend(h, root)
    ELSE IF cpre = key THEN
        LET b1 == n.key[Len(cpre) + 1]
            link(nin, b1val) ==
                [h |-> set_branch(nin.h, nin.id, b1, b1val.id), id |-> nin.id, old |-> -1]
            with_b0val(b0val, b1val) ==
                link(make_inner(b0val.h, cpre, b0val.id, {b1}, ver), b1val)
            with_b1val(b1val) == with_b0val(make_value(b1val.h, <<>>, val), b1val)
        IN  with_b1val(make_inner_copy(retain(h, n.val), n, Tail2(n.key, Len(cpre) + 1),
                                       n.val, DOMAIN n.br, ver))
    ELSE
        LET b1 == key[Len(cpre) + 1]
            b2 == n.key[Len(cpre) + 1]
            link(nin, sub) ==
                [h |-> set_branch(sub.h, nin.id, b2, sub.id), id |-> nin.id, old |-> -1]
            with_leaf(nin, lf) ==
                link(nin, make_inner_copy(retain(set_branch(lf.h, nin.id, b1, lf.id), n.val),
                                          n, Tail2(n.key, Len(cpre) + 1), n.val,
                                          DOMAIN n.br, ver))
            with_nin(nin) == with_leaf(nin, make_value(nin.h, Tail2(key, Len(cpre) + 1), val))
        IN  with_nin(make_inner(h, cpre, 0, {b1, b2}, ver))

WithRemoved(r, size) == [h |-> r.h, id |-> r.id, removed |-> size]

(* slots_left that counts the value slot whether or not it holds a value *)
slots_left_value_counted(n, new_branches) == Cardinality(new_branches) + 1

(* remove_child, "remove branch": popcount(new_branches) + bool(in.value()) *)
slots_left(n, new_branches) ==
    Cardinality(new_branches) + (IF n.val # 0 THEN 1 ELSE 0)

RECURSIVE remove_child(_, _, _, _)
(* write_session::remove_child: [h, id, removed] with removed the size it  *)
(* stored in removed_size, -1 when it stored none                          *)
remove_child(h, ver, root, key) ==
    LET same == [h |-> h, id |-> root, removed |-> -1] IN
    IF root = 0 THEN same
    ELSE LET n == h.o[root] IN
    IF n.t = "leaf" THEN
        IF n.key = key THEN [h |-> h, id |-> 0, removed |-> Len(n.data)] ELSE same
    ELSE IF Len(n.key) > Len(key) THEN same
    ELSE IF n.key = key THEN
        IF n.val = 0 THEN same
        ELSE LET size == Len(h.o[n.val].data) IN
             IF num_branches(n) = 1 THEN
                 LET b  == Min(DOMAIN n.br)
                     bn == h.o[n.br[b]]
                     new_key == n.key \o <<b>> \o bn.key
                 IN  IF bn.t = "leaf"
                     THEN WithRemoved(make_value(h, new_key, bn.data), size)
                     ELSE WithRemoved(make_inner_copy(retain(h, bn.val), bn, new_key, bn.val,
                                                      DOMAIN bn.br, ver), size)
             ELSE IF n.ver = ver THEN
                 [h |-> set_node_value(db_release(h, n.val), root, 0), id |-> root,
                  removed |-> size]
             ELSE WithRemoved(make_inner_copy(h, n, key, 0, DOMAIN n.br, ver), size)
    \* both early returns give back root; the prefix test is made first so
    \* that key[in_key.size()] is only read where it exists
    ELSE IF common_prefix(n.key, key) # n.key THEN same
    ELSE LET b == key[Len(n.key) + 1] IN
    IF ~has_branch(n, b) THEN same
    ELSE
    LET cur_b == n.br[b]
        new_branches == DOMAIN n.br \ {b}
        \* update branch: the copy is built and the id of the new branch is returned
        relink(new_root, r) ==
            [h  |-> set_branch(db_release(new_root.h, new_root.h.o[new_root.id].br[b]),
                               new_root.id, b, r.id),
             id |-> r.id, removed |-> r.removed]
        \* r is what remove_child returned for the branch cur_b
        merge(r) ==
            IF r.id = cur_b THEN [h |-> r.h, id |-> root, removed |-> r.removed]
            ELSE IF r.id # 0 /\ n.ver = ver THEN
                [h |-> set_branch(db_release(r.h, cur_b), root, b, r.id), id |-> root,
                 removed |-> r.removed]
            ELSE IF r.id # 0 THEN
                relink(make_inner_copy(retain(r.h, n.val), n, n.key, n.val, DOMAIN n.br, ver), r)
            ELSE IF slots_left(n, new_branches) > 1 THEN
                WithRemoved(make_inner_copy(retain(r.h, n.val), n, n.key, n.val,
                                            new_branches, ver), r.removed)
            ELSE IF new_branches = {} THEN
                LET cv == r.h.o[n.val]
                IN  WithRemoved(make_value(r.h, n.key \o cv.key, cv.data), r.removed)
            ELSE
                LET lb == Min(new_branches)
                    cv == r.h.o[n.br[lb]]
                    new_key == n.key \o <<lb>> \o cv.key
                IN  IF cv.t = "leaf"
                    THEN WithRemoved(make_value(r.h, new_key, cv.data), r.removed)
                    ELSE WithRemoved(make_inner_copy(retain(r.h, cv.val), cv, new_key, cv.val,
                                                     DOMAIN cv.br, ver), r.removed)
    IN  merge(remove_child(h, ver, cur_b, Tail2(key, Len(n.key) + 1)))

-----------------------------------------------------------------------------
(* Ordered iteration: database.hpp.  A path is a sequence of <<id, branch>> *)
(* pairs; branch -1 is the node's own value.                                *)

(* What an iterator call leaves when it indexes a branch the node does not  *)
(* have (inner_node::branch of an unset bit): not a path of the trie        *)
UBPath == << <<0, 0>> >>

Push(path, id, b) == Append(path, <<id, b>>)
Pop(path) == SubSeq(path, 1, Len(path) - 1)
SetBack(path, b) == [path EXCEPT ![Len(path)] = <<@[1], b>>]

RECURSIVE first_from(_, _, _)
(* session::first, from its loop on: descend the leftmost branch, stopping  *)
(* at a leaf or at an inner node that has a value                           *)
first_from(h, root, path) ==
    LET n == h.o[root] IN
    IF n.t = "leaf" THEN Push(path, root, -1)
    ELSE IF n.val # 0 THEN Push(path, root, -1)
    ELSE LET lb == lower_bound_branch(n, 0) IN
         IF lb = 64 THEN UBPath
         ELSE first_from(h, n.br[lb], Push(path, root, lb))

first(h, root) == IF root = 0 THEN <<>> ELSE first_from(h, root, <<>>)

RECURSIVE find_first(_, _, _)
(* the "find first" loop of session::next.  It reads the child as an inner  *)
(* node before knowing its type: for a leaf child the branch it pushes is   *)
(* whatever the leaf's bytes hold there (stray)                             *)
find_first(h, path, stray) ==
    LET c == path[Len(path)]
        n == h.o[c[1]]
    IN  IF n.t = "leaf" THEN path
        ELSE LET b  == n.br[c[2]]
                 bn == h.o[b]
             IN  IF bn.t = "leaf" THEN Push(path, b, stray)
                 ELSE IF bn.val # 0 THEN Push(path, b, -1)
                 ELSE find_first(h, Push(path, b, lower_bound_branch(bn, 0)), stray)

(* next that gives up where it would go back to the parent *)
next_no_pop(h, path, stray) ==
    IF path = <<>> THEN <<>>
    ELSE LET c == path[Len(path)]
             n == h.o[c[1]]
         IN  IF n.t # "leaf" /\ lower_bound_branch(n, c[2] + 1) <= 63
             THEN find_first(h, SetBack(path, lower_bound_branch(n, c[2] + 1)), stray)
             ELSE <<>>

RECURSIVE next(_, _, _)
(* session::next *)
next(h, path, stray) ==
    IF path = <<>> THEN <<>>
    ELSE LET c == path[Len(path)]
             n == h.o[c[1]]
         IN  IF n.t # "leaf" /\ lower_bound_branch(n, c[2] + 1) <= 63
             THEN find_first(h, SetBack(path, lower_bound_branch(n, c[2] + 1)), stray)
             ELSE next(h, Pop(path), stray)

RECURSIVE lower_bound_from(_, _, _, _, _)
(* session::lower_bound, from its loop on *)
lower_bound_from(h, root, key, path, stray) ==
    LET n == h.o[root] IN
    IF n.t = "leaf" THEN
        IF SeqLess(n.key, key)
        THEN next(h, Push(path, root, -1), stray)
        ELSE Push(path, root, -1)
    ELSE IF ~SeqLess(n.key, key) THEN
        (IF n.val = 0 THEN next(h, Push(path, root, -1), stray) ELSE Push(path, root, -1))
    ELSE LET cpre == common_prefix(key, n.key) IN
    IF SeqLeq(key, cpre) THEN
        (IF n.val = 0 THEN next(h, Push(path, root, -1), stray) ELSE Push(path, root, -1))
    ELSE LET b == lower_bound_branch(n, key[Len(cpre) + 1]) IN
         IF b < 64
         THEN lower_bound_from(h, n.br[b], Tail2(key, Len(cpre) + 1), Push(path, root, b), stray)
         ELSE path

lower_bound(h, root, key, stray) ==
    IF root = 0 THEN <<>> ELSE lower_bound_from(h, root, to_key6(key), <<>>, stray)

RECURSIVE find_last(_, _, _)
(* the "find last" loop of session::last_with_prefix *)
find_last(h, root, path) ==
    LET n == h.o[root] IN
    IF n.t = "leaf" THEN Push(path, root, -1)
    ELSE LET b == reverse_lower_bound(n, 63) IN
         IF b = -1 THEN Push(path, root, -1)
         ELSE find_last(h, n.br[b], Push(path, root, b))

RECURSIVE last_with_prefix_from(_, _, _)
(* session::last_with_prefix, from its loop on.  The descent does not push  *)
(* the nodes it passes.                                                     *)
last_with_prefix_from(h, root, prefix) ==
    LET n == h.o[root] IN
    IF n.t = "leaf" THEN
        (IF common_prefix(n.key, prefix) = prefix THEN << <<root, -1>> >> ELSE <<>>)
    ELSE IF n.key = prefix THEN find_last(h, root, <<>>)
    ELSE LET cpre == common_prefix(n.key, prefix) IN
    IF Len(n.key) > Len(prefix) THEN
        (IF cpre = prefix THEN << <<root, -1>> >> ELSE <<>>)
    ELSE IF cpre # n.key THEN <<>>
    ELSE LET b == lower_bound_branch(n, prefix[Len(cpre) + 1]) IN
         IF b = 64 THEN UBPath
         ELSE last_with_prefix_from(h, n.br[b], Tail2(prefix, Len(cpre) + 1))

last_with_prefix(h, root, prefix) ==
    IF root = 0 THEN <<>> ELSE last_with_prefix_from(h, root, to_key6(prefix))

RECURSIVE path_chars(_, _)
(* what iterator::read_key would copy with room for everything: each node's *)
(* key followed by the branch taken out of it                               *)
path_chars(h, path) ==
    IF path = <<>> THEN <<>>
    ELSE h.o[path[1][1]].key \o <<path[1][2]>> \o path_chars(h, Tail(path))

RECURSIVE path_key_sizes(_, _)
path_key_sizes(h, path) ==
    IF path = <<>> THEN 0 ELSE Len(h.o[path[1][1]].key) + path_key_sizes(h, Tail(path))

(* iterator::key_size *)
key_size(h, path) ==
    IF path = <<>> THEN 0 ELSE Len(path) - 1 + path_key_sizes(h, path)

(* iterator::read_key into a buffer of key_size() characters *)
read_key(h, path) == SubSeq(path_chars(h, path), 1, key_size(h, path))

(* iterator::key *)
iter_key(h, path) == from_key6(read_key(h, path))

(* iterator::_value: the data of the leaf at the back of the path, or of    *)
(* the value node of the inner node there.  An inner node without a value  *)
(* makes it read the null id.                                              *)
iter_value(h, path) ==
    IF path = <<>> THEN <<>>
    ELSE LET n == h.o[path[Len(path)][1]] IN
         IF n.t = "leaf" THEN n.data
         ELSE IF n.t = "inner" /\ n.val # 0 /\ h.o[n.val].t = "leaf" THEN h.o[n.val].data
         ELSE Garbage

-----------------------------------------------------------------------------
(* The calls of a write session *)

Heap == [o |-> objs, ff |-> first_free, ma |-> max_allocated]

SetHeap(h) ==
    /\ objs' = h.o
    /\ first_free' = h.ff
    /\ max_allocated' = h.ma

(* upsert that returns the size of the value it stored *)
upsert_new_size(h, ver, root, key, val) ==
    LET done(r) ==
            IF r.id # root
            THEN [h |-> db_release(r.h, root), root |-> r.id, ret |-> Len(val)]
            ELSE [h |-> r.h, root |-> root, ret |-> Len(val)]
    IN  done(add_child(h, ver, root, to_key6(key), val))

(* write_session::upsert: [h, root, ret] *)
upsert(h, ver, root, key, val) ==
    LET done(r) ==
            IF r.id # root
            THEN [h |-> db_release(r.h, root), root |-> r.id, ret |-> r.old]
            ELSE [h |-> r.h, root |-> root, ret |-> r.old]
    IN  done(add_child(h, ver, root, to_key6(key), val))

(* write_session::remove: [h, root, ret] *)
remove(h, ver, root, key) ==
    LET done(r) ==
            IF r.id # root
            THEN [h |-> db_release(r.h, root), root |-> r.id, ret |-> r.removed]
            ELSE [h |-> r.h, root |-> root, ret |-> r.removed]
    IN  done(remove_child(h, ver, root, to_key6(key)))

(* write_session::fork(id from_version): [h, root, ver] *)
fork(h, root, from) ==
    LET done(r, ver) == [h |-> db_release(r.h, root), root |-> r.id, ver |-> ver] IN
    IF from = 0 THEN [h |-> db_release(h, root), root |-> 0, ver |-> 0]
    ELSE LET n == h.o[from] IN
         IF n.t = "leaf"
         THEN done(make_value(h, n.key, n.data), 0)
         ELSE done(make_inner_copy(h, n, n.key, n.val, DOMAIN n.br, n.ver + 1), n.ver + 1)

(* write_session::set_root_revision(id i): [h, rev] *)
set_root_revision(h, rev, i) ==
    IF rev # i THEN [h |-> db_release(retain(h, i), rev), rev |-> i]
    ELSE [h |-> h, rev |-> rev]

(* write_session::clear: [h, root] *)
clear(h, root) == [h |-> db_release(h, root), root |-> 0]

(* session::set_session_revision(id r): [h, root] *)
set_session_revision(h, root, r) ==
    IF r # root THEN [h |-> db_release(retain(h, r), root), root |-> r]
    ELSE [h |-> h, root |-> root]

-----------------------------------------------------------------------------
(* State shared by the specifications *)

MaxTrieOps == 4
MaxIterWrites == 2

(* the keys lower_bound and last_with_prefix are asked for *)
QueryKeys == Keys \cup { <<>>, <<0,0,128>> }

(* what next() may push as the branch of a leaf it read as an inner node:   *)
(* -1 when the bytes read as a value id are not zero, else a bit index      *)
StrayBranch == {-1, 0, 64}
InitialValue == <<1>>

NoCall == [op |-> "none", key |-> <<>>, val |-> <<>>, ret |-> 0, want |-> 0]
NoItr  == [mode |-> "none", arg |-> <<>>, path |-> <<>>, seen |-> <<>>, vals |-> <<>>]
NoProbe == [pc |-> "idle", k8 |-> <<>>, k6 |-> <<>>, back |-> <<>>]
EmptyHeap == [o |-> <<>>, ff |-> 0, ma |-> 0]
NoDir == [o |-> <<>>, ff |-> 0, ma |-> 0, flags |-> 0, mutex |-> 0]
NoGc == [pc |-> "none"]

(* no region allocator has been constructed *)
NoRa == [open |-> FALSE]

RECURSIVE populate(_, _, _)
(* the heap and root the write session has after it upserted the keys ks,   *)
(* in this order, into an empty database                                    *)
populate(h, root, ks) ==
    LET rest(r) == populate(r.h, r.root, Tail(ks)) IN
    IF ks = <<>> THEN [h |-> h, root |-> root]
    ELSE rest(upsert(h, 0, root, ks[1], InitialValue))

(* The ghost variables and counters of a database that holds the keys S *)
Fresh(S) ==
    /\ version = 0
    /\ readers = [r \in Readers |-> [open |-> FALSE, root |-> 0, pins |-> 0]]
    /\ kv = [k \in Keys |-> IF k \in S THEN InitialValue ELSE NoValue]
    /\ snap = [r \in Readers |-> [k \in Keys |-> NoValue]]
    /\ last = NoCall
    /\ itr = NoItr
    /\ steps = 0
    /\ dir = NoDir
    /\ thr = <<>>
    /\ gc = NoGc
    /\ ra = NoRa

(* A database holding the keys S, each with InitialValue, in the trie of    *)
(* the write session that upserted them                                     *)
PopulatedDb(S) ==
    \E p \in {populate(EmptyHeap, 0, SortKeys(S))} :
        /\ objs = p.h.o
        /\ first_free = p.h.ff
        /\ max_allocated = p.h.ma
        /\ session_root = p.root
        /\ root_revision = 0
        /\ Fresh(S)
        /\ probe = NoProbe

(* The same database after the write session published its root with       *)
(* set_root_revision                                                        *)
PublishedDb(S) ==
    \E p \in {populate(EmptyHeap, 0, SortKeys(S))} :
        \E q \in {set_root_revision(p.h, 0, p.root)} :
            /\ objs = q.h.o
            /\ first_free = q.h.ff
            /\ max_allocated = q.h.ma
            /\ session_root = p.root
            /\ root_revision = q.rev
            /\ Fresh(S)
            /\ probe = NoProbe

(* the size a stored value reports, -1 for none *)
SizeOf(v) == IF v = NoValue THEN -1 ELSE Len(v)

Stored == {k \in Keys : kv[k] # NoValue}

DoUpsert(k, v) ==
    \E r \in {upsert(Heap, version, session_root, k, v)} :
    /\ r.h.ma <= MaxId
    /\ SetHeap(r.h)
    /\ session_root' = r.root
    /\ kv' = [kv EXCEPT ![k] = v]
    /\ last' = [op |-> "upsert", key |-> k, val |-> v, ret |-> r.ret, want |-> SizeOf(kv[k])]
    /\ itr' = NoItr

DoRemove(k) ==
    \E r \in {remove(Heap, version, session_root, k)} :
    /\ r.h.ma <= MaxId
    /\ SetHeap(r.h)
    /\ session_root' = r.root
    /\ kv' = [kv EXCEPT ![k] = NoValue]
    /\ last' = [op |-> "remove", key |-> k, val |-> <<>>, ret |-> r.ret, want |-> SizeOf(kv[k])]
    /\ itr' = NoItr

(* the key and the value an iterator shows at a position, none when invalid *)
Shown(path) == IF path = <<>> THEN <<>> ELSE <<iter_key(Heap, path)>>
ShownValue(path) == IF path = <<>> THEN <<>> ELSE <<iter_value(Heap, path)>>

(* an iterator positioned by a call that indexed a branch the node lacks    *)
(* may hold anything: it is invalid, or it names some live node             *)
Outcomes(path) ==
    IF path = UBPath
    THEN {<<>>} \cup { << <<i, -1>> >> : i \in {j \in 1..max_allocated : objs[j].t # "free"} }
    ELSE {path}

Position(mode, arg, path) ==
    /\ itr.mode = "none"
    /\ itr' = [mode |-> mode, arg |-> arg, path |-> path, seen |-> Shown(path),
               vals |-> ShownValue(path)]
    /\ UNCHANGED <<objs, first_free, max_allocated, session_root, kv>>

(* session::first *)
DoFirst ==
    \E p \in Outcomes(first(Heap, session_root)) : Position("first", <<>>, p)

(* session::lower_bound *)
DoLowerBound(k) ==
    \E stray \in StrayBranch :
        \E p \in Outcomes(lower_bound(Heap, session_root, k, stray)) :
            Position("lower_bound", k, p)

(* session::last_with_prefix *)
DoLastWithPrefix(k) ==
    \E p \in Outcomes(last_with_prefix(Heap, session_root, k)) :
        Position("last_with_prefix", k, p)

(* iterator::operator++ on a valid iterator *)
DoIncr ==
    /\ itr.path # <<>>
    /\ \E stray \in StrayBranch :
          \E p \in {next(Heap, itr.path, stray)} :
          itr' = [itr EXCEPT !.path = p, !.seen = @ \o Shown(p), !.vals = @ \o ShownValue(p)]
    /\ UNCHANGED <<objs, first_free, max_allocated, session_root, kv>>

-----------------------------------------------------------------------------
(* SpecTrie: one write session that upserts, removes and iterates, on a     *)
(* database an earlier session populated from empty                         *)

TrieFrame == UNCHANGED <<version, root_revision, readers, snap, probe, dir, thr, gc, ra>>

TrieInit == \E S \in SUBSET Keys : PopulatedDb(S)

TrieUpsert(k, v) ==
    /\ steps < MaxTrieOps
    /\ steps' = steps + 1
    /\ DoUpsert(k, v)
    /\ TrieFrame

TrieRemove(k) ==
    /\ steps < MaxTrieOps
    /\ steps' = steps + 1
    /\ DoRemove(k)
    /\ TrieFrame

TrieNext ==
    \/ \E k \in Keys, v \in Values : TrieUpsert(k, v)
    \/ \E k \in Keys : TrieRemove(k)

SpecTrie == TrieInit /\ [][TrieNext]_vars

-----------------------------------------------------------------------------
(* SpecIter: one iterator of a write session over a populated database that *)
(* the session may have written to; a write invalidates the iterator        *)

IterInit == \E S \in SUBSET Keys : PopulatedDb(S)

IterUpsert(k, v) ==
    /\ steps < MaxIterWrites
    /\ steps' = steps + 1
    /\ DoUpsert(k, v)
    /\ TrieFrame

IterRemove(k) ==
    /\ steps < MaxIterWrites
    /\ steps' = steps + 1
    /\ DoRemove(k)
    /\ TrieFrame

IterFrame == last' = NoCall /\ UNCHANGED steps /\ TrieFrame

IterFirst == DoFirst /\ IterFrame

IterLowerBound(k) == DoLowerBound(k) /\ IterFrame

IterLastWithPrefix(k) == DoLastWithPrefix(k) /\ IterFrame

IterIncr == DoIncr /\ IterFrame

IterNext ==
    \/ \E k \in Keys, v \in Values : IterUpsert(k, v)
    \/ \E k \in Keys : IterRemove(k)
    \/ IterFirst
    \/ \E k \in QueryKeys : IterLowerBound(k)
    \/ \E k \in QueryKeys : IterLastWithPrefix(k)
    \/ IterIncr

SpecIter == IterInit /\ [][IterNext]_vars

-----------------------------------------------------------------------------
(* SpecPerm: from an empty database the write session upserts keys it has   *)
(* not stored yet, in any order and with any values, and scans the trie     *)

PermValues == { <<1>>, <<3,3>> }

PermInit == PopulatedDb({})

PermFrame == UNCHANGED <<version, root_revision, readers, snap, steps, probe, dir, thr, gc, ra>>

PermInsert(k, v) ==
    /\ k \notin Stored
    /\ DoUpsert(k, v)
    /\ PermFrame

PermFirst == DoFirst /\ UNCHANGED last /\ PermFrame

PermIncr == DoIncr /\ UNCHANGED last /\ PermFrame

PermNext ==
    \/ \E k \in Keys, v \in PermValues : PermInsert(k, v)
    \/ PermFirst
    \/ PermIncr

SpecPerm == PermInit /\ [][PermNext]_vars

-----------------------------------------------------------------------------
(* SpecKey6: a key is encoded with to_key6 and decoded with from_key6 *)

ByteStrings == UNION { [1..n -> ProbeBytes] : n \in 0..MaxProbeLen }

Key6Init ==
    /\ objs = <<>>
    /\ first_free = 0
    /\ max_allocated = 0
    /\ session_root = 0
    /\ root_revision = 0
    /\ Fresh({})
    /\ \E k \in ByteStrings : probe = [NoProbe EXCEPT !.k8 = k]

Key6Frame ==
    UNCHANGED <<objs, first_free, max_allocated, session_root, version, root_revision,
                readers, kv, snap, last, itr, steps, dir, thr, gc, ra>>

Encode ==
    /\ probe.pc = "idle"
    /\ probe' = [probe EXCEPT !.pc = "encoded", !.k6 = to_key6(probe.k8)]
    /\ Key6Frame

Decode ==
    /\ probe.pc = "encoded"
    /\ probe' = [probe EXCEPT !.pc = "decoded", !.back = from_key6(probe.k6)]
    /\ Key6Frame

Key6Next == Encode \/ Decode

SpecKey6 == Key6Init /\ [][Key6Next]_vars

-----------------------------------------------------------------------------
(* Spec: the write session forks, writes, clears and publishes while a read *)
(* session pins the published root.  SpecWriter is the write session alone. *)

Range(f) == {f[x] : x \in DOMAIN f}

(* the ids a node refers to *)
Refs(n) == IF n.t = "inner" THEN ({n.val} \cup Range(n.br)) \ {0} ELSE {}

RECURSIVE ReachFrom(_, _)
(* the ids reachable from the ids in todo, given those already found *)
ReachFrom(todo, found) ==
    IF todo = {} THEN found
    ELSE LET i == Min(todo)
             new == Refs(objs[i]) \ (found \cup todo)
         IN  ReachFrom((todo \ {i}) \cup new, found \cup {i})

Roots == ({session_root, root_revision} \cup {readers[r].root : r \in Readers}) \ {0}

Reachable == ReachFrom(Roots, {})

RECURSIVE FreeChain(_, _)
(* the ids on the free list, following next from id i for at most n links *)
FreeChain(i, n) ==
    IF i = 0 \/ n = 0 THEN {}
    ELSE {i} \cup (IF objs[i].t = "free" THEN FreeChain(objs[i].next, n - 1) ELSE {})

FreeList == FreeChain(first_free, max_allocated)

(* every root leads to live nodes only; a call on a trie that holds a freed *)
(* id reads freed memory, and the model does not follow the program there   *)
Sound == \A i \in Reachable : objs[i].t # "free"

(* the session root is the session's own: neither published nor pinned *)
Private ==
    session_root = 0 \/
    (session_root # root_revision /\ \A r \in Readers : readers[r].root # session_root)

Init == \E S \in SUBSET Keys : PublishedDb(S)

WriterInit == \E S \in SUBSET Keys : PopulatedDb(S)

WriterCall ==
    /\ Sound
    /\ steps < MaxOps
    /\ steps' = steps + 1
    /\ UNCHANGED <<readers, snap, probe, dir, thr, gc, ra>>

Upsert(k, v) ==
    /\ WriterCall
    /\ Private
    /\ DoUpsert(k, v)
    /\ UNCHANGED <<version, root_revision>>

Remove(k) ==
    /\ WriterCall
    /\ Private
    /\ DoRemove(k)
    /\ UNCHANGED <<version, root_revision>>

Fork(from) ==
    \E r \in {fork(Heap, session_root, from)} :
    /\ WriterCall
    /\ r.h.ma <= MaxId
    /\ SetHeap(r.h)
    /\ session_root' = r.root
    /\ version' = r.ver
    /\ last' = [NoCall EXCEPT !.op = "fork"]
    /\ itr' = NoItr
    /\ kv' = [k \in Keys |-> get(Heap, from, to_key6(k))]
    /\ UNCHANGED root_revision

Clear ==
    \E r \in {clear(Heap, session_root)} :
    /\ WriterCall
    /\ Private
    /\ session_root # 0
    /\ SetHeap(r.h)
    /\ session_root' = r.root
    /\ last' = [NoCall EXCEPT !.op = "clear"]
    /\ itr' = NoItr
    /\ kv' = [k \in Keys |-> NoValue]
    /\ UNCHANGED <<version, root_revision>>

SetRootRevision ==
    \E r \in {set_root_revision(Heap, root_revision, session_root)} :
    /\ WriterCall
    /\ root_revision # session_root
    /\ SetHeap(r.h)
    /\ root_revision' = r.rev
    /\ last' = [NoCall EXCEPT !.op = "set_root_revision"]
    /\ UNCHANGED <<session_root, version, kv, itr>>

ReaderFrame ==
    UNCHANGED <<session_root, version, root_revision, kv, last, itr, steps, probe, dir, thr, gc, ra>>

(* database::start_read_session *)
StartReadSession(r) ==
    /\ Sound
    /\ ~readers[r].open
    /\ readers' = [readers EXCEPT ![r].open = TRUE, ![r].root = 0]
    /\ UNCHANGED <<objs, first_free, max_allocated, snap>>
    /\ ReaderFrame

(* the read session pins the published root: set_session_revision *)
PinRoot(r) ==
    \E p \in {set_session_revision(Heap, readers[r].root, root_revision)} :
    /\ Sound
    /\ readers[r].open
    /\ readers[r].root # root_revision
    /\ readers[r].pins < MaxPins
    /\ SetHeap(p.h)
    /\ readers' = [readers EXCEPT ![r].root = p.root, ![r].pins = @ + 1]
    /\ snap' = [snap EXCEPT ![r] = [k \in Keys |-> get(Heap, root_revision, to_key6(k))]]
    /\ ReaderFrame

(* session::~session: the session leaves the list of active sessions *)
EndReadSession(r) ==
    /\ Sound
    /\ readers[r].open
    /\ readers' = [readers EXCEPT ![r].open = FALSE, ![r].root = 0]
    /\ snap' = [snap EXCEPT ![r] = [k \in Keys |-> NoValue]]
    /\ UNCHANGED <<objs, first_free, max_allocated>>
    /\ ReaderFrame

WriterNext ==
    \/ \E k \in Keys, v \in Values : Upsert(k, v)
    \/ \E k \in Keys : Remove(k)
    \/ \E from \in {0, session_root, root_revision} : Fork(from)
    \/ Clear
    \/ SetRootRevision

ReaderNext ==
    \/ \E r \in Readers : StartReadSession(r)
    \/ \E r \in Readers : PinRoot(r)
    \/ \E r \in Readers : EndReadSession(r)

Next == WriterNext \/ ReaderNext

Spec == Init /\ [][Next]_vars

SpecWriter == WriterInit /\ [][WriterNext]_vars

-----------------------------------------------------------------------------
(* Claims *)

\* C1: get(k) returns the value of the latest upsert(k, v) not followed by a
\* remove(k), and not-found otherwise, for every key.
C1_MapRefinement ==
    \A k \in Keys : get(Heap, session_root, to_key6(k)) = kv[k]

(* an upsert replaced the value in an inner node's value slot and a remove  *)
(* then took a key away from under that node                                *)
C1_Witness ==
    /\ last.op = "remove" /\ last.key = <<0,1>> /\ last.want = 1
    /\ kv[<<0>>] = <<3,3>> /\ kv[<<0,16>>] # NoValue
    /\ get(Heap, session_root, to_key6(<<0>>)) = <<3,3>>
    /\ get(Heap, session_root, to_key6(<<0,1>>)) = NoValue

\* C2: what a read session reads through the root it pinned does not change
\* while the writer forks, writes and publishes.
C2_SnapshotIsolation ==
    \A r \in Readers :
        (readers[r].open /\ readers[r].root # 0) =>
            \A k \in Keys : get(Heap, readers[r].root, to_key6(k)) = snap[r][k]

(* the keys and the <<key, value>> pairs the iterator has shown *)
Pairs == [i \in 1..Len(itr.seen) |-> <<itr.seen[i], itr.vals[i]>>]

(* the stored pairs in ascending order of the key *)
SortedPairs == [i \in 1..Cardinality(Stored) |-> <<SortKeys(Stored)[i], kv[SortKeys(Stored)[i]]>>]

\* C3: from first(), ++ until invalid shows every stored key exactly once, in
\* ascending order of the 8-bit keys, and key() is the 8-bit key.
C3_ForwardScan ==
    itr.mode = "first" =>
        /\ Len(itr.seen) <= Cardinality(Stored)
        /\ itr.seen = SubSeq(SortKeys(Stored), 1, Len(itr.seen))
        /\ itr.path = <<>> => itr.seen = SortKeys(Stored)

(* a scan of all five keys ended, after a write changed the trie *)
C3_Witness ==
    /\ itr.mode = "first" /\ itr.path = <<>> /\ Len(itr.seen) = 5
    /\ steps = 1

(* the stored keys not below k, and those that have p as a prefix *)
NotBelow(k) == {s \in Stored : SeqLeq(k, s)}
WithPrefix(p) == {s \in Stored : IsPrefix(p, s)}

\* C4: lower_bound(k) is positioned at the smallest stored key >= k, and is
\* invalid when no stored key is >= k.
C4_LowerBound ==
    itr.mode = "lower_bound" =>
        IF NotBelow(itr.arg) = {} THEN itr.seen = <<>>
        ELSE itr.seen # <<>> /\ itr.seen[1] = SortKeys(NotBelow(itr.arg))[1]

\* C5: last_with_prefix(p) is positioned at the greatest stored key that has
\* p as a prefix, and is invalid when no stored key has the prefix p.
C5_LastWithPrefix ==
    itr.mode = "last_with_prefix" =>
        IF WithPrefix(itr.arg) = {} THEN itr.seen = <<>>
        ELSE /\ itr.seen # <<>>
             /\ itr.seen[1] = SortKeys(WithPrefix(itr.arg))[Cardinality(WithPrefix(itr.arg))]

\* C6: whatever the order in which the pairs were upserted from empty, the
\* scan from first() shows the stored pairs sorted by key.
C6_InsertionOrder ==
    itr.mode = "first" =>
        /\ Len(itr.seen) <= Cardinality(Stored)
        /\ Pairs = SubSeq(SortedPairs, 1, Len(itr.seen))
        /\ itr.path = <<>> => Pairs = SortedPairs

(* a scan of all five keys ended; the smallest key went in last, a key in   *)
(* between before it, and the values differ                                 *)
C6_Witness ==
    /\ itr.mode = "first" /\ itr.path = <<>> /\ Len(itr.seen) = 5
    /\ last.op = "upsert" /\ last.key = <<0>> /\ last.want = -1
    /\ kv[<<0>>] = <<3,3>> /\ kv[<<0,1>>] = <<1>> /\ kv[<<4,0>>] = <<3,3>>

\* C7: upsert returns the size of the value it replaced and remove the size
\* of the value it removed, -1 when the key was not present.
C7_ReturnedSize ==
    last.op \in {"upsert", "remove"} => last.ret = last.want

(* remove took a two-byte value out of an inner node's value slot *)
C7_Witness ==
    /\ last.op = "remove" /\ last.key = <<0>> /\ last.ret = 2
    /\ kv[<<0,1>>] # NoValue /\ kv[<<0,16>>] # NoValue

\* C8: from_key6(to_key6(k)) = k for every byte string k, and every element
\* of to_key6(k) is in 0..63.
C8_Key6RoundTrip ==
    /\ probe.pc \in {"encoded", "decoded"} =>
           /\ Len(probe.k6) = (Len(probe.k8) * 8 + 5) \div 6
           /\ \A i \in 1..Len(probe.k6) : probe.k6[i] \in 0..63
    /\ probe.pc = "decoded" => probe.back = probe.k8

(* a five-byte key with high and low bits set went through both *)
C8_Witness ==
    /\ probe.pc = "decoded"
    /\ probe.k8 = <<255, 1, 130, 97, 255>>
    /\ probe.back = <<255, 1, 130, 97, 255>>

\* C9: no id reachable from a session root or the published root has
\* refcount 0, and no id on the free list has a refcount other than 0.
C9_RefcountInvariant ==
    /\ \A i \in Reachable : objs[i].ref # 0
    /\ \A i \in FreeList : objs[i].ref = 0

(* the number of child and value slots, session roots and published-root    *)
(* references that hold id i                                                *)
Holders(i) ==
    Cardinality({j \in 1..max_allocated : objs[j].t = "inner" /\ objs[j].val = i})
    + Cardinality({c \in {<<j, b>> : j \in 1..max_allocated, b \in 0..63} :
                     /\ objs[c[1]].t = "inner"
                     /\ c[2] \in DOMAIN objs[c[1]].br
                     /\ objs[c[1]].br[c[2]] = i})
    + (IF session_root = i THEN 1 ELSE 0)
    + (IF root_revision = i THEN 1 ELSE 0)
    + Cardinality({r \in Readers : readers[r].root = i})

\* C10: every id up to max_allocated that no root reaches is on the free
\* list, and the refcount of each live id is the number of its holders.
C10_NoLeak ==
    /\ \A i \in 1..max_allocated : i \notin Reachable => i \in FreeList
    /\ \A i \in 1..max_allocated : objs[i].t # "free" => objs[i].ref = Holders(i)

(* the ids the write session's root leads to *)
SessionNodes == ReachFrom({session_root} \ {0}, {})

(* the populated slots of an inner node: its set branches and its value *)
Slots(n) == num_branches(n) + (IF n.val # 0 THEN 1 ELSE 0)

\* C20: every inner node of a trie built by upsert and remove from empty has
\* at least two populated slots, and every set branch bit has its child id.
C20_InnerNodeShape ==
    \A i \in SessionNodes :
        objs[i].t = "inner" =>
            /\ Slots(objs[i]) >= 2
            /\ \A b \in DOMAIN objs[i].br : objs[i].br[b] # 0

(* remove took one of the two keys under an inner node below the root, and  *)
(* the node was fused into a leaf: the root has two leaves as its children  *)
C20_Witness ==
    /\ last.op = "remove" /\ last.key = <<0,1>> /\ last.ret = 1
    /\ Stored = { <<0,0>>, <<4,0>> }
    /\ session_root # 0 /\ objs[session_root].t = "inner"
    /\ Slots(objs[session_root]) = 2
    /\ \A i \in SessionNodes \ {session_root} : objs[i].t = "leaf"

\* C12: a read session holds one reference on the root it pinned, and the end
\* of the session releases it: the root's refcount goes down by exactly one.
C12_SessionRelease ==
    [][\A r \in Readers :
          (readers[r].open /\ readers[r].root # 0 /\ ~readers'[r].open) =>
              objs'[readers[r].root].ref = objs[readers[r].root].ref - 1]_vars

(* the heap a step leaves, and what a root shows for each key before and    *)
(* after the step                                                           *)
HeapNext == [o |-> objs', ff |-> first_free', ma |-> max_allocated']
Reads(root) == [k \in Keys |-> get(Heap, root, to_key6(k))]
ReadsNext(root) == [k \in Keys |-> get(HeapNext, root, to_key6(k))]

(* the steps of a read session r, and the writer's publishing step *)
Created(r) == ~readers[r].open /\ readers'[r].open
Published  == root_revision' # root_revision

(* a publishing step leaves every session that has a root its root, and     *)
(* what it reads through it                                                 *)
OldRootKept ==
    Published =>
        \A r \in Readers :
            (readers[r].open /\ readers[r].root # 0) =>
                /\ readers'[r] = readers[r]
                /\ ReadsNext(readers[r].root) = Reads(readers[r].root)

\* C11 as claimed: a read session created by start_read_session reads from
\* the published root, and a session created before a set_root_revision
\* keeps its root and what it reads through it.
C11_PublishVisibility ==
    [][/\ \A r \in Readers :
              Created(r) => ReadsNext(readers'[r].root) = Reads(root_revision)
       /\ OldRootKept]_vars

-----------------------------------------------------------------------------
(* The id directory slot by slot: object_db.hpp.  dir is the mapped file    *)
(* [o, ff, ma, flags] (objects, first_free, max_allocated, flags) and the   *)
(* mutex alloc takes.  A slot is the 64-bit word as its bit fields          *)
(* [ref, lock, type, cache, off]: bits 0-12, 13, 14-15, 16-17 and 18-63.    *)
(* In a free slot bits 14-63 are the next free id.                          *)

MaxDirId == 3
MaxDirCalls == 2

running_gc_flag == 256

(* the offset obj_val gives a slot that has no location yet: (1 << 45) - 1, *)
(* all ones in the 45-bit field, written as the field's signed reading      *)
no_offset == -1

Threads == {1, 2}
NodeTypes == {1, 2}
Locations == { [offset |-> 0, cache |-> 3], [offset |-> 8, cache |-> 3] }

Slot(r, l, t, c, f) == [ref |-> r, lock |-> l, type |-> t, cache |-> c, off |-> f]
ZeroSlot == Slot(0, 0, 0, 0, 0)

(* x >> 14 and x << 14 *)
extract_next_ptr(x) == x.type + 4 * x.cache + 16 * x.off
create_next_ptr(n) == Slot(0, 0, n % 4, (n \div 4) % 4, n \div 16)

obj_val(type, r) == Slot(r, 0, type, 0, no_offset)

(* obj | position_lock_mask and obj & ~position_lock_mask *)
with_lock(x) == [x EXCEPT !.lock = 1]
without_lock(x) == [x EXCEPT !.lock = 0]

(* object_info::set_location and operator object_location *)
set_location(x, loc) == [x EXCEPT !.cache = loc.cache, !.off = loc.offset \div 8]
location(x) == [offset |-> x.off * 8, cache |-> x.cache]

(* obj + 1 and obj - 1 on the whole word: a carry out of the refcount goes  *)
(* into the lock bit and from there into bits 14-63                         *)
word_plus_1(x) ==
    IF x.ref < ref_count_mask THEN [x EXCEPT !.ref = @ + 1]
    ELSE IF x.lock = 0 THEN [x EXCEPT !.ref = 0, !.lock = 1]
    ELSE create_next_ptr(extract_next_ptr(x) + 1)

word_minus_1(x) ==
    IF x.ref > 0 THEN [x EXCEPT !.ref = @ - 1]
    ELSE IF x.lock = 1 THEN [x EXCEPT !.ref = ref_count_mask, !.lock = 0]
    ELSE [create_next_ptr(extract_next_ptr(x) - 1) EXCEPT !.ref = ref_count_mask, !.lock = 1]

(* bump_count that refuses only at the all-ones count *)
bump_refused_at_all_ones(obj) == obj.ref = ref_count_mask

(* bump_count: the test that makes it return false *)
bump_refused(obj) == obj.ref = ref_count_mask - 1

(* try_lock that does not look at the refcount *)
try_lock_outcome_any_ref(info, loc) ==
    IF location(info) # loc THEN "unmatched"
    ELSE IF info.lock = 1 THEN "held"
    ELSE "cas"

(* try_lock(id, loc, matched): what it does with the word it loaded *)
try_lock_outcome(info, loc) ==
    IF info.ref = 0 \/ location(info) # loc THEN "unmatched"
    ELSE IF info.lock = 1 THEN "held"
    ELSE "cas"

(* alloc that stores the new slot without the lock bit *)
alloc_val_unlocked(type) == obj_val(type, 1)

(* alloc: the word it stores in the slot it hands out *)
alloc_val(type) == with_lock(obj_val(type, 1))

(* release that pushes an id when one reference is left *)
release_frees_at_one(val) == val.ref <= 1

(* release: the test that sends it to the free list *)
release_frees(val) == val.ref = 0

(* A thread: where it is in its call, the call's arguments and locals, what *)
(* the call returned, and (ghost) the references and locks it holds         *)
NoThread ==
    [pc |-> "idle", op |-> "none", calls |-> 0,
     id |-> 0, type |-> 0, loc |-> [offset |-> 0, cache |-> 0],
     obs |-> ZeroSlot, ff |-> 0, nxt |-> 0,
     ok |-> FALSE, matched |-> FALSE, ret |-> ZeroSlot,
     was |-> ZeroSlot, head |-> 0, pushed |-> FALSE,
     held |-> [i \in 1..MaxDirId |-> 0], locked |-> {}]

Callable(t) == thr[t].pc \in {"idle", "done"} /\ thr[t].calls < MaxDirCalls

(* the thread enters a call: its locals and results start afresh *)
Enter(t, op, pc, id) ==
    [NoThread EXCEPT !.pc = pc, !.op = op, !.id = id, !.calls = thr[t].calls + 1,
                     !.held = thr[t].held, !.locked = thr[t].locked]

TrieUnused ==
    /\ objs = <<>> /\ first_free = 0 /\ max_allocated = 0
    /\ session_root = 0 /\ root_revision = 0 /\ version = 0
    /\ readers = [r \in Readers |-> [open |-> FALSE, root |-> 0, pins |-> 0]]
    /\ kv = [k \in Keys |-> NoValue]
    /\ snap = [r \in Readers |-> [k \in Keys |-> NoValue]]
    /\ last = NoCall /\ itr = NoItr /\ steps = 0 /\ probe = NoProbe

TrieUntouched ==
    UNCHANGED <<objs, first_free, max_allocated, session_root, version, root_revision,
                readers, kv, snap, last, itr, steps, probe, ra>>

(* A directory with id 1 live at a location, r references to it of which    *)
(* each thread holds one, and id 2 either on the free list or never         *)
(* allocated                                                                *)
DirInit ==
    /\ TrieUnused
    /\ gc = NoGc
    /\ ra = NoRa
    /\ \E r \in {2, 3, ref_count_mask - 2, ref_count_mask - 1}, free2 \in BOOLEAN,
          loc \in Locations :
          /\ dir = [o |-> [i \in 1..MaxDirId |->
                              IF i = 1 THEN set_location(obj_val(1, r), loc)
                              ELSE ZeroSlot],
                    ff |-> IF free2 THEN 2 ELSE 0,
                    ma |-> IF free2 THEN 2 ELSE 1,
                    flags |-> 0, mutex |-> 0]
          /\ thr = [t \in Threads |-> [NoThread EXCEPT !.held[1] = 1]]

(* bump_count: auto obj = atomic.load() *)
BumpCall(t, id) ==
    /\ Callable(t)
    /\ thr[t].held[id] > 0
    /\ thr' = [thr EXCEPT ![t] = [Enter(t, "bump", "bump", id) EXCEPT !.obs = dir.o[id]]]
    /\ UNCHANGED <<dir, gc>>
    /\ TrieUntouched

(* bump_count: one turn of do { ... } while (!compare_exchange_weak(obj, obj + 1)) *)
BumpStep(t) ==
    /\ thr[t].pc = "bump"
    /\ IF bump_refused(thr[t].obs)
       THEN /\ thr' = [thr EXCEPT ![t].pc = "done", ![t].ok = FALSE]
            /\ dir' = dir
       ELSE IF dir.o[thr[t].id] = thr[t].obs
       THEN /\ dir' = [dir EXCEPT !.o[thr[t].id] = word_plus_1(thr[t].obs)]
            /\ thr' = [thr EXCEPT ![t].pc = "done", ![t].ok = TRUE,
                                  ![t].was = thr[t].obs,
                                  ![t].held[thr[t].id] = @ + 1]
       ELSE /\ thr' = [thr EXCEPT ![t].obs = dir.o[thr[t].id]]
            /\ dir' = dir
    /\ UNCHANGED gc
    /\ TrieUntouched

(* release: auto val = obj.fetch_sub(1) - 1; new_count = (val & ref_count_mask) *)
ReleaseCall(t, id) ==
    /\ Callable(t)
    /\ thr[t].held[id] > 0
    /\ id \notin thr[t].locked
    /\ dir' = [dir EXCEPT !.o[id] = word_minus_1(@)]
    /\ thr' = [thr EXCEPT ![t] =
                  [Enter(t, "release", IF release_frees(word_minus_1(dir.o[id]))
                                       THEN "release_load" ELSE "done", id)
                      EXCEPT !.was = dir.o[id],
                             !.ret = word_minus_1(dir.o[id]),
                             !.held[id] = @ - 1]]
    /\ UNCHANGED gc
    /\ TrieUntouched

(* release: ff = first_free.load() *)
ReleaseLoad(t) ==
    /\ thr[t].pc = "release_load"
    /\ thr' = [thr EXCEPT ![t].pc = "release_store", ![t].ff = dir.ff]
    /\ UNCHANGED <<dir, gc>>
    /\ TrieUntouched

(* release: obj.store(create_next_ptr(ff)) *)
ReleaseStore(t) ==
    /\ thr[t].pc = "release_store"
    /\ dir' = [dir EXCEPT !.o[thr[t].id] = create_next_ptr(thr[t].ff)]
    /\ thr' = [thr EXCEPT ![t].pc = "release_cas"]
    /\ UNCHANGED gc
    /\ TrieUntouched

(* release: while (not first_free.compare_exchange_strong(ff, id)) *)
ReleaseCas(t) ==
    /\ thr[t].pc = "release_cas"
    /\ IF dir.ff = thr[t].ff
       THEN /\ dir' = [dir EXCEPT !.ff = thr[t].id]
            /\ thr' = [thr EXCEPT ![t].pc = "done", ![t].pushed = TRUE,
                                  ![t].head = dir.ff]
       ELSE /\ dir' = dir
            /\ thr' = [thr EXCEPT ![t].pc = "release_load"]
    /\ UNCHANGED gc
    /\ TrieUntouched

(* alloc: takes _region_mutex, then if (_header->first_free.load() == 0) *)
AllocCall(t, type) ==
    /\ Callable(t)
    /\ dir.mutex = 0
    /\ dir.flags = 0
    /\ dir.ff = 0 => dir.ma < MaxDirId
    /\ dir' = [dir EXCEPT !.mutex = t]
    /\ thr' = [thr EXCEPT ![t] =
                  [Enter(t, "alloc", IF dir.ff = 0 THEN "alloc_hw" ELSE "alloc_load", 0)
                      EXCEPT !.type = type]]
    /\ UNCHANGED gc
    /\ TrieUntouched

(* alloc, first branch: ++max_allocated and the store into the new slot *)
AllocHw(t) ==
    /\ thr[t].pc = "alloc_hw"
    /\ dir' = [dir EXCEPT !.ma = @ + 1, !.o[dir.ma + 1] = alloc_val(thr[t].type),
                          !.mutex = 0]
    /\ thr' = [thr EXCEPT ![t].pc = "done", ![t].id = dir.ma + 1,
                          ![t].was = dir.o[dir.ma + 1], ![t].head = 0,
                          ![t].ret = alloc_val(thr[t].type),
                          ![t].held[dir.ma + 1] = @ + 1,
                          ![t].locked = @ \cup {dir.ma + 1}]
    /\ UNCHANGED gc
    /\ TrieUntouched

(* alloc, second branch: uint64_t ff = _header->first_free.load() *)
AllocLoad(t) ==
    /\ thr[t].pc = "alloc_load"
    /\ thr' = [thr EXCEPT ![t].pc = "alloc_next", ![t].ff = dir.ff]
    /\ UNCHANGED <<dir, gc>>
    /\ TrieUntouched

(* alloc: the argument of the exchange, extract_next_ptr(objects[ff].load()) *)
AllocNext(t) ==
    /\ thr[t].pc = "alloc_next"
    /\ thr' = [thr EXCEPT ![t].pc = "alloc_cas",
                          ![t].nxt = extract_next_ptr(dir.o[thr[t].ff])]
    /\ UNCHANGED <<dir, gc>>
    /\ TrieUntouched

(* alloc: while (not first_free.compare_exchange_strong(ff, ...)) *)
AllocCas(t) ==
    /\ thr[t].pc = "alloc_cas"
    /\ IF dir.ff = thr[t].ff
       THEN /\ dir' = [dir EXCEPT !.ff = thr[t].nxt]
            /\ thr' = [thr EXCEPT ![t].pc = "alloc_store", ![t].head = dir.ff,
                                  ![t].was = dir.o[thr[t].ff]]
       ELSE /\ dir' = dir
            /\ thr' = [thr EXCEPT ![t].pc = "alloc_next", ![t].ff = dir.ff]
    /\ UNCHANGED gc
    /\ TrieUntouched

(* alloc: objects[ff].store(obj_val(type, 1) | position_lock_mask) *)
AllocStore(t) ==
    /\ thr[t].pc = "alloc_store"
    /\ dir' = [dir EXCEPT !.o[thr[t].ff] = alloc_val(thr[t].type), !.mutex = 0]
    /\ thr' = [thr EXCEPT ![t].pc = "done", ![t].id = thr[t].ff,
                          ![t].ret = alloc_val(thr[t].type),
                          ![t].held[thr[t].ff] = @ + 1,
                          ![t].locked = @ \cup {thr[t].ff}]
    /\ UNCHANGED gc
    /\ TrieUntouched

(* try_lock(id, loc, matched): object_info info{atomic.load()} *)
TryLockCall(t, id, loc) ==
    /\ Callable(t)
    /\ id \in 1..dir.ma
    /\ thr' = [thr EXCEPT ![t] =
                  [Enter(t, "try_lock", "try_lock", id)
                      EXCEPT !.obs = dir.o[id], !.loc = loc]]
    /\ UNCHANGED <<dir, gc>>
    /\ TrieUntouched

(* try_lock(id, loc, matched): one turn of the do-while *)
TryLockStep(t) ==
    /\ thr[t].pc = "try_lock"
    /\ IF try_lock_outcome(thr[t].obs, thr[t].loc) = "unmatched"
       THEN /\ thr' = [thr EXCEPT ![t].pc = "done", ![t].matched = FALSE,
                                  ![t].ok = FALSE, ![t].was = thr[t].obs]
            /\ dir' = dir
       ELSE IF try_lock_outcome(thr[t].obs, thr[t].loc) = "held"
       THEN /\ thr' = [thr EXCEPT ![t].pc = "done", ![t].matched = TRUE,
                                  ![t].ok = FALSE, ![t].was = thr[t].obs]
            /\ dir' = dir
       ELSE IF dir.o[thr[t].id] = thr[t].obs
       THEN /\ dir' = [dir EXCEPT !.o[thr[t].id] = with_lock(thr[t].obs)]
            /\ thr' = [thr EXCEPT ![t].pc = "done", ![t].matched = TRUE,
                                  ![t].ok = TRUE, ![t].was = thr[t].obs,
                                  ![t].ret = with_lock(thr[t].obs),
                                  ![t].locked = @ \cup {thr[t].id}]
       ELSE /\ thr' = [thr EXCEPT ![t].obs = dir.o[thr[t].id]]
            /\ dir' = dir
    /\ UNCHANGED gc
    /\ TrieUntouched

(* move(lock, loc), by the thread that allocated the id and still holds it *)
Move(t, id, loc) ==
    /\ Callable(t)
    /\ id \in thr[t].locked
    /\ thr[t].held[id] > 0
    /\ location(dir.o[id]) # loc
    /\ dir' = [dir EXCEPT !.o[id] = set_location(@, loc)]
    /\ thr' = [thr EXCEPT ![t] = Enter(t, "move", "done", id)]
    /\ UNCHANGED gc
    /\ TrieUntouched

(* unlock(id), from ~location_lock *)
Unlock(t, id) ==
    /\ thr[t].pc \in {"idle", "done"}
    /\ id \in thr[t].locked
    /\ dir' = [dir EXCEPT !.o[id] = without_lock(@)]
    /\ thr' = [thr EXCEPT ![t].locked = @ \ {id}]
    /\ UNCHANGED gc
    /\ TrieUntouched

DirNext ==
    \E t \in Threads :
        \/ \E id \in 1..MaxDirId : BumpCall(t, id)
        \/ BumpStep(t)
        \/ \E id \in 1..MaxDirId : ReleaseCall(t, id)
        \/ ReleaseLoad(t)
        \/ ReleaseStore(t)
        \/ ReleaseCas(t)
        \/ \E type \in NodeTypes : AllocCall(t, type)
        \/ AllocHw(t)
        \/ AllocLoad(t)
        \/ AllocNext(t)
        \/ AllocCas(t)
        \/ AllocStore(t)
        \/ \E id \in 1..MaxDirId, loc \in Locations : TryLockCall(t, id, loc)
        \/ TryLockStep(t)
        \/ \E id \in 1..MaxDirId, loc \in Locations : Move(t, id, loc)
        \/ \E id \in 1..MaxDirId : Unlock(t, id)

SpecDir == DirInit /\ [][DirNext]_vars

-----------------------------------------------------------------------------
C17_BumpSaturates ==
    [][/\ \A t \in Threads :
            /\ (thr'[t].pc = "bump" /\ thr'[t] # thr[t]) =>
                    thr'[t].obs = dir.o[thr'[t].id]
            /\ (thr[t].pc = "bump" /\ thr'[t].pc = "done") =>
                    IF thr[t].obs.ref = ref_count_mask - 1
                    THEN ~thr'[t].ok /\ dir' = dir
                    ELSE /\ thr'[t].ok
                         /\ dir.o[thr[t].id] = thr[t].obs
                         /\ dir' = [dir EXCEPT !.o[thr[t].id].ref = @ + 1]
       /\ \A i \in 1..MaxDirId : dir'.o[i].ref # ref_count_mask]_vars

(* both threads bumped id 1 when its refcount was ref_count_mask - 2: one   *)
(* got true and the other false                                             *)
C17_Witness ==
    /\ thr[1].pc = "done" /\ thr[1].op = "bump" /\ thr[1].ok /\ thr[1].calls = 1
    /\ thr[1].was.ref = ref_count_mask - 2
    /\ thr[2].pc = "done" /\ thr[2].op = "bump" /\ ~thr[2].ok /\ thr[2].calls = 1
    /\ dir.o[1].ref = ref_count_mask - 1

(* C18: release of an id with a nonzero refcount takes exactly 1 from the   *)
(* refcount; it goes on to the free list exactly when the new refcount is   *)
(* 0, the step that pushes the id makes it first_free with the previous     *)
(* first_free as the next pointer in its slot, and the returned object_info *)
(* has ref = 0 exactly when the call pushed the id                          *)
C18_Release ==
    [][\A t \in Threads :
          /\ (thr[t].pc \in {"idle", "done"} /\ thr'[t].op = "release"
                  /\ thr'[t].calls = thr[t].calls + 1) =>
                /\ dir.o[thr'[t].id].ref > 0
                /\ dir' = [dir EXCEPT !.o[thr'[t].id].ref = @ - 1]
                /\ thr'[t].ret = dir'.o[thr'[t].id]
                /\ thr'[t].pc = "done" <=> thr'[t].ret.ref # 0
                /\ ~thr'[t].pushed
          /\ (thr[t].pc = "release_cas" /\ thr'[t].pc = "done") =>
                /\ dir' = [dir EXCEPT !.ff = thr[t].id]
                /\ dir.o[thr[t].id] = create_next_ptr(dir.ff)
                /\ thr'[t].pushed
                /\ thr'[t].ret = thr[t].ret
          /\ (thr'[t].pc = "done" /\ thr'[t].op = "release") =>
                (thr'[t].pushed <=> thr'[t].ret.ref = 0)]_vars

(* thread 2 released id 1 and left one reference, then thread 1 released    *)
(* the last one and pushed id 1 in front of id 2                            *)
C18_Witness ==
    /\ thr[2].pc = "done" /\ thr[2].op = "release" /\ thr[2].id = 1
    /\ thr[2].ret.ref = 1 /\ ~thr[2].pushed
    /\ thr[1].pc = "done" /\ thr[1].op = "release" /\ thr[1].id = 1
    /\ thr[1].ret.ref = 0 /\ thr[1].pushed
    /\ dir.ff = 1 /\ dir.o[1] = create_next_ptr(2)

(* C19: try_lock(id, loc, matched) returns the lock only if the word it     *)
(* read, which is then still the slot's word, has a nonzero refcount, the   *)
(* location loc and a clear lock bit, and the only thing it writes is that  *)
(* lock bit; otherwise it returns no lock and writes nothing, with matched  *)
(* false exactly when the refcount is 0 or the location is not loc, and     *)
(* matched true when only the lock bit stood in the way                     *)
C19_TryLock ==
    [][\A t \in Threads :
          /\ (thr'[t].pc = "try_lock" /\ thr'[t] # thr[t]) =>
                thr'[t].obs = dir.o[thr'[t].id]
          /\ (thr[t].pc = "try_lock" /\ thr'[t].pc = "done") =>
                /\ thr'[t].ok <=> /\ thr[t].obs.ref # 0
                                  /\ location(thr[t].obs) = thr[t].loc
                                  /\ thr[t].obs.lock = 0
                /\ thr'[t].ok =>
                      /\ dir.o[thr[t].id] = thr[t].obs
                      /\ dir' = [dir EXCEPT !.o[thr[t].id].lock = 1]
                      /\ thr'[t].matched
                /\ ~thr'[t].ok =>
                      /\ dir' = dir
                      /\ ~thr'[t].matched <=> \/ thr[t].obs.ref = 0
                                              \/ location(thr[t].obs) # thr[t].loc
                      /\ thr'[t].matched => thr[t].obs.lock = 1]_vars

(* thread 1 holds the lock it got on id 1 at its location, and thread 2 was *)
(* refused it with matched = true                                           *)
C19_Witness ==
    /\ thr[1].pc = "done" /\ thr[1].op = "try_lock" /\ thr[1].id = 1
    /\ thr[1].ok /\ thr[1].matched /\ 1 \in thr[1].locked
    /\ thr[2].pc = "done" /\ thr[2].op = "try_lock" /\ thr[2].id = 1
    /\ ~thr[2].ok /\ thr[2].matched /\ thr[2].loc = thr[1].loc
    /\ dir.o[1].lock = 1 /\ dir.o[1].ref # 0

-----------------------------------------------------------------------------
(* The mark-and-sweep of the id directory: gc_start, gc_retain, gc_finish   *)
(* and the constructor that opens the file, step by step, with the process  *)
(* killed at any step.  gc = [pc, i, retained, retains, first, dirty, err,  *)
(* allow, opens, kills]: i is the loop index, first the last return of      *)
(* gc_retain, err the last exception; retained (how often each id was       *)
(* retained in this cycle) and dirty (a refcount was reset and gc_finish    *)
(* has not made its last update) are ghosts.                                *)

MaxGcId == 3
MaxRetains == 3
MaxKills == 1
MaxOpens == 2

GcIds == 1..MaxGcId

NextFreeBelow(S, i) ==
    IF \E j \in S : j < i THEN Max({j \in S : j < i}) ELSE 0

(* create_next_ptr stored in first_free, which holds a plain id otherwise *)
next_ptr_word(n) == n * 16384

(* gc_start: o.store((i & ~ref_count_mask) | 1) for a slot with a refcount *)
gc_reset(x) == IF x.ref # 0 THEN [x EXCEPT !.ref = 1] ELSE x

NoErr == "none"

IdleGc ==
    [pc |-> "idle", i |-> 0, retained |-> [i \in GcIds |-> 0], retains |-> 0,
     first |-> FALSE, dirty |-> FALSE, err |-> NoErr, allow |-> FALSE,
     opens |-> 0, kills |-> 0]

FlagSet == dir.flags = running_gc_flag

(* An open directory of MaxGcId ids: those of S are on the free list, the   *)
(* last released first, the others hold r references                        *)
GcInit ==
    /\ TrieUnused
    /\ thr = <<>>
    /\ gc = IdleGc
    /\ ra = NoRa
    /\ \E S \in SUBSET GcIds, r \in {1, 3} :
          dir = [o |-> [i \in GcIds |->
                           IF i \in S THEN create_next_ptr(NextFreeBelow(S, i))
                           ELSE set_location(obj_val(1, r), [offset |-> 8 * i, cache |-> 3])],
                 ff |-> IF S = {} THEN 0 ELSE Max(S),
                 ma |-> MaxGcId, flags |-> 0, mutex |-> 0]

(* gc_start that goes into its loop without setting the flag *)
GcStartNoFlag ==
    /\ gc.pc = "idle"
    /\ gc' = [gc EXCEPT !.pc = "start_loop", !.i = 1, !.retains = 0,
                        !.retained = [i \in GcIds |-> 0], !.err = NoErr]
    /\ UNCHANGED <<dir, thr>>
    /\ TrieUntouched

(* gc_start: h->flags.store(h->flags.load() | running_gc_flag) *)
GcStartFlag ==
    /\ gc.pc = "idle"
    /\ dir' = [dir EXCEPT !.flags = running_gc_flag]
    /\ gc' = [gc EXCEPT !.pc = "start_loop", !.i = 1, !.retains = 0,
                        !.retained = [i \in GcIds |-> 0], !.err = NoErr]
    /\ UNCHANGED thr
    /\ TrieUntouched

(* gc_start: one turn of the loop over objects[1..max_allocated] *)
GcStartSlot ==
    /\ gc.pc = "start_loop"
    /\ gc.i <= dir.ma
    /\ dir' = [dir EXCEPT !.o[gc.i] = gc_reset(@)]
    /\ gc' = [gc EXCEPT !.i = @ + 1, !.dirty = TRUE,
                        !.pc = IF gc.i = dir.ma THEN "mark" ELSE "start_loop"]
    /\ UNCHANGED thr
    /\ TrieUntouched

(* gc_retain(id) *)
GcRetain(id) ==
    /\ gc.pc = "mark"
    /\ gc.retains < MaxRetains
    /\ FlagSet
    /\ IF id > dir.ma
       THEN /\ gc' = [gc EXCEPT !.retains = @ + 1,
                                !.err = "invalid object id, outside allocated range"]
            /\ dir' = dir
       ELSE IF dir.o[id].ref = 0
       THEN /\ gc' = [gc EXCEPT !.retains = @ + 1,
                                !.err = "reference to deleted object found"]
            /\ dir' = dir
       ELSE IF dir.o[id].ref = ref_count_mask
       THEN /\ gc' = [gc EXCEPT !.retains = @ + 1,
                                !.err = "too many references to object id"]
            /\ dir' = dir
       ELSE /\ dir' = [dir EXCEPT !.o[id] = word_plus_1(@)]
            /\ gc' = [gc EXCEPT !.retains = @ + 1, !.err = NoErr,
                                !.first = (dir.o[id].ref = 1),
                                !.retained[id] = @ + 1]
    /\ UNCHANGED thr
    /\ TrieUntouched

(* gc_finish: auto* last_free = &h->first_free *)
GcFinishCall ==
    /\ gc.pc = "mark"
    /\ FlagSet
    /\ gc' = [gc EXCEPT !.pc = IF dir.ma = 0 THEN "finish_last" ELSE "finish_loop",
                        !.i = 1]
    /\ UNCHANGED <<dir, thr>>
    /\ TrieUntouched

(* gc_finish: one turn of the loop; last_free is never moved off first_free *)
GcFinishSlot ==
    /\ gc.pc = "finish_loop"
    /\ gc.i <= dir.ma
    /\ IF dir.o[gc.i].ref > 1
       THEN dir' = [dir EXCEPT !.o[gc.i] = word_minus_1(@)]
       ELSE dir' = [dir EXCEPT !.ff = next_ptr_word(gc.i)]
    /\ gc' = [gc EXCEPT !.i = @ + 1,
                        !.pc = IF gc.i = dir.ma THEN "finish_last" ELSE "finish_loop"]
    /\ UNCHANGED thr
    /\ TrieUntouched

(* gc_finish: last_free->store(0) *)
GcFinishLast ==
    /\ gc.pc = "finish_last"
    /\ dir' = [dir EXCEPT !.ff = 0]
    /\ gc' = [gc EXCEPT !.pc = "finish_flag", !.dirty = FALSE]
    /\ UNCHANGED thr
    /\ TrieUntouched

(* gc_finish: h->flags.store(h->flags.load() & ~running_gc_flag) *)
GcFinishFlag ==
    /\ gc.pc = "finish_flag"
    /\ dir' = [dir EXCEPT !.flags = 0]
    /\ gc' = [gc EXCEPT !.pc = "finished"]
    /\ UNCHANGED thr
    /\ TrieUntouched

(* SIGKILL: the process is gone, the mapped file stays as it is *)
Kill ==
    /\ gc.pc # "dead"
    /\ gc.kills < MaxKills
    /\ gc' = [gc EXCEPT !.pc = "dead", !.kills = @ + 1]
    /\ UNCHANGED <<dir, thr>>
    /\ TrieUntouched

(* object_db::object_db(gc, idfile, read_write, allow_gc) on the file *)
Open(allow_gc) ==
    /\ gc.pc = "dead"
    /\ gc.opens < MaxOpens
    /\ IF ~allow_gc /\ FlagSet
       THEN /\ gc' = [gc EXCEPT !.opens = @ + 1, !.allow = allow_gc,
                                !.err = "garbage collection in progress"]
            /\ dir' = dir
       ELSE /\ gc' = [gc EXCEPT !.opens = @ + 1, !.allow = allow_gc,
                                !.err = NoErr, !.pc = "idle"]
            /\ dir' = [dir EXCEPT !.o = [i \in DOMAIN dir.o |->
                                            IF i <= dir.ma THEN without_lock(dir.o[i])
                                            ELSE dir.o[i]]]
    /\ UNCHANGED thr
    /\ TrieUntouched

GcNext ==
    \/ GcStartFlag
    \/ GcStartSlot
    \/ \E id \in 1..(MaxGcId + 1) : GcRetain(id)
    \/ GcFinishCall
    \/ GcFinishSlot
    \/ GcFinishLast
    \/ GcFinishFlag
    \/ Kill
    \/ \E allow_gc \in BOOLEAN : Open(allow_gc)

SpecGc == GcInit /\ [][GcNext]_vars

-----------------------------------------------------------------------------
RECURSIVE Ascending(_)
Ascending(S) == IF S = {} THEN <<>> ELSE <<Min(S)>> \o Ascending(S \ {Min(S)})

RECURSIVE DirFreeChain(_, _)
(* the ids met from id along the next pointers until 0; -1 stands for a     *)
(* pointer that leaves 1..max_allocated or a chain that does not end        *)
DirFreeChain(id, n) ==
    IF id = 0 THEN <<>>
    ELSE IF n = 0 \/ id \notin 1..dir.ma THEN <<-1>>
    ELSE <<id>> \o DirFreeChain(extract_next_ptr(dir.o[id]), n - 1)

NeverRetained == {i \in 1..dir.ma : gc.retained[i] = 0}

(* C14: when gc_finish has returned, every retained id has as refcount the  *)
(* number of times it was retained, and the free list from first_free is    *)
(* the never-retained ids of 1..max_allocated in ascending order, each with *)
(* refcount 0, ending in 0                                                  *)
C14_GcRebuild ==
    gc.pc = "finished" =>
        /\ \A i \in 1..dir.ma : gc.retained[i] > 0 => dir.o[i].ref = gc.retained[i]
        /\ DirFreeChain(dir.ff, dir.ma) = Ascending(NeverRetained)
        /\ \A i \in NeverRetained : dir.o[i].ref = 0

(* the part of C14 that is about the retained ids only *)
GcRetainedCounts ==
    gc.pc = "finished" =>
        \A i \in 1..dir.ma : gc.retained[i] > 0 => dir.o[i].ref = gc.retained[i]

(* C15: the gc-running flag is set in every state from gc_start's first     *)
(* turn over a slot until gc_finish has made its last store to the slots    *)
(* and first_free, whether or not the process was killed and the file       *)
(* reopened in between; and opening the file read_write without allow_gc    *)
(* while the flag is set throws "garbage collection in progress" and writes *)
(* nothing to the file                                                      *)
C15_GcDetected ==
    [][/\ gc'.dirty => dir'.flags = running_gc_flag
       /\ (gc'.opens = gc.opens + 1 /\ ~gc'.allow /\ FlagSet) =>
             /\ gc'.err = "garbage collection in progress"
             /\ gc'.pc = "dead"
             /\ dir' = dir]_vars

(* the process was killed inside gc_start's loop, after it had reset id 1   *)
(* from 3 to 1 and before it reached the last id, and the open without      *)
(* allow_gc that followed was refused                                       *)
C15_Witness ==
    /\ gc.pc = "dead" /\ gc.kills = 1 /\ gc.opens = 1 /\ ~gc.allow
    /\ gc.err = "garbage collection in progress"
    /\ gc.dirty /\ gc.i = 2
    /\ dir.o[1].ref = 1 /\ dir.o[MaxGcId].ref = 3
    /\ FlagSet

-----------------------------------------------------------------------------
(* Recovery after a kill: the writer's calls, the kill between two of them, *)
(* and then start_collect_garbage, recursive_retain of the published root   *)
(* and end_collect_garbage.  After the kill gc = [pc, pub], pub being       *)
(* (ghost) what the published root held when the process died.             *)

(* gc_start on the heap: every nonzero refcount becomes 1 *)
gc_start(h) ==
    [h EXCEPT !.o = [i \in DOMAIN h.o |->
                        IF h.o[i].ref # 0 THEN [h.o[i] EXCEPT !.ref = 1] ELSE h.o[i]]]

(* gc_finish on the heap: a refcount above 1 loses 1; for the other slots   *)
(* only first_free is written, and it ends as 0                             *)
gc_finish(h) ==
    [h EXCEPT !.o = [i \in DOMAIN h.o |->
                        IF h.o[i].ref > 1 THEN [h.o[i] EXCEPT !.ref = @ - 1] ELSE h.o[i]],
              !.ff = 0]

RECURSIVE recursive_retain(_, _)
RECURSIVE retain_children(_, _)
(* write_session::recursive_retain(r): the heap it leaves and whether it    *)
(* returns                                                                  *)
recursive_retain(h, r) ==
    IF r = 0 THEN [h |-> h, done |-> TRUE]
    ELSE IF ref(h, r) > 1 \/ h.o[r].t # "inner"
    THEN [h |-> retain(h, r), done |-> TRUE]
    ELSE IF DOMAIN h.o[r].br = {}
    THEN recursive_retain(retain(h, r), h.o[r].val)
    ELSE retain_children(recursive_retain(retain(h, r), h.o[r].val).h,
                         h.o[r].br[Min(DOMAIN h.o[r].br)])

(* the loop over the children, which increments e and not c: c stays on the *)
(* first child and e moves away from it, so the loop retains the first      *)
(* child again and again, up to the count at which retain stops counting,   *)
(* and is never left                                                        *)
retain_children(h, c) ==
    LET k(x) == IF x.done
                THEN [h |-> [x.h EXCEPT !.o[c].ref = ref_count_mask - 1], done |-> FALSE]
                ELSE x
    IN  k(recursive_retain(h, c))

RecUpsert(k, v) == gc.pc = "none" /\ Upsert(k, v)

RecRemove(k) == gc.pc = "none" /\ Remove(k)

RecSetRootRevision == gc.pc = "none" /\ SetRootRevision

RecoverFrame == UNCHANGED <<version, root_revision, kv, last, itr, steps, probe, dir, thr, ra>>

(* SIGKILL between two calls: the files stay, the sessions are gone *)
Crash ==
    /\ gc.pc = "none"
    /\ gc' = [pc |-> "dead", pub |-> Reads(root_revision)]
    /\ session_root' = 0
    /\ readers' = [r \in Readers |-> [open |-> FALSE, root |-> 0, pins |-> 0]]
    /\ snap' = [r \in Readers |-> [k \in Keys |-> NoValue]]
    /\ UNCHANGED <<objs, first_free, max_allocated>>
    /\ RecoverFrame

(* the files are opened again and start_collect_garbage is called *)
StartCollectGarbage ==
    /\ gc.pc = "dead"
    /\ SetHeap(gc_start(Heap))
    /\ gc' = [gc EXCEPT !.pc = "reset"]
    /\ UNCHANGED <<session_root, readers, snap>>
    /\ RecoverFrame

(* recursive_retain(published root) *)
RecursiveRetain ==
    /\ gc.pc = "reset"
    /\ \E r \in {recursive_retain(Heap, root_revision)} :
          /\ SetHeap(r.h)
          /\ gc' = [gc EXCEPT !.pc = IF r.done THEN "marked" ELSE "stuck"]
    /\ UNCHANGED <<session_root, readers, snap>>
    /\ RecoverFrame

(* end_collect_garbage *)
EndCollectGarbage ==
    /\ gc.pc = "marked"
    /\ SetHeap(gc_finish(Heap))
    /\ gc' = [gc EXCEPT !.pc = "recovered"]
    /\ UNCHANGED <<session_root, readers, snap>>
    /\ RecoverFrame

RecoverNext ==
    \/ \E k \in Keys, v \in Values : RecUpsert(k, v)
    \/ \E k \in Keys : RecRemove(k)
    \/ RecSetRootRevision
    \/ Crash
    \/ StartCollectGarbage
    \/ RecursiveRetain
    \/ EndCollectGarbage

SpecRecover == Init /\ [][RecoverNext]_vars

(* the ids the published root leads to *)
PublishedNodes == ReachFrom({root_revision} \ {0}, {})

(* C13: once the process has been killed between two calls and the recovery *)
(* has gone into recursive_retain of the published root, the recovery comes *)
(* to its end, and then every key reads through the published root as it    *)
(* did when the process died, no id the published root leads to has         *)
(* refcount 0 and no id on the free list has a refcount other than 0        *)
C13_CrashRecovery ==
    gc.pc \in {"marked", "stuck", "recovered"} =>
        /\ gc.pc # "stuck"
        /\ Reads(root_revision) = gc.pub
        /\ \A i \in PublishedNodes : objs[i].ref # 0
        /\ \A i \in FreeList : objs[i].ref = 0

(* what C13 says of the recoveries that come to their end *)
RecoveredConsistent ==
    gc.pc = "recovered" =>
        /\ Reads(root_revision) = gc.pub
        /\ \A i \in PublishedNodes : objs[i].ref # 0
        /\ \A i \in FreeList : objs[i].ref = 0

-----------------------------------------------------------------------------
(* the leaves whose payload a step changed while the slot stayed a leaf *)
Rewritten ==
    {i \in 1..max_allocated :
        /\ objs[i].t = "leaf" /\ objs'[i].t = "leaf"
        /\ objs'[i].data # objs[i].data}

(* C25: a step of the write session changes the payload held by a leaf's    *)
(* slot only if the refcount of that leaf was 1 before the step; an         *)
(* overwrite in place of a leaf that something else refers to as well does  *)
(* not happen                                                               *)
C25_InPlaceOnlyUnshared ==
    [][\A i \in Rewritten : objs[i].ref = 1]_vars


(***************************************************************************)
(* The move-lock bit under contention: object_db.hpp try_lock(id),         *)
(* spin_lock, move and unlock by a thread that owns no reference (the      *)
(* evacuator of region_allocator.cpp), beside alloc and release            *)
(***************************************************************************)

(* try_lock(id): auto obj = atomic.load(), on an id the caller found live *)
TryLock1Call(t, id) ==
    /\ Callable(t)
    /\ id \in 1..dir.ma
    /\ dir.o[id].ref # 0
    /\ id \notin thr[t].locked
    /\ thr' = [thr EXCEPT ![t] =
                  [Enter(t, "try_lock1", "try_lock1", id) EXCEPT !.obs = dir.o[id]]]
    /\ UNCHANGED <<dir, gc>>
    /\ TrieUntouched

(* try_lock(id): one turn of the do-while *)
TryLock1Step(t) ==
    /\ thr[t].pc = "try_lock1"
    /\ IF thr[t].obs.lock = 1
       THEN /\ thr' = [thr EXCEPT ![t].pc = "done", ![t].ok = FALSE,
                                  ![t].was = thr[t].obs]
            /\ dir' = dir
       ELSE IF dir.o[thr[t].id] = thr[t].obs
       THEN /\ dir' = [dir EXCEPT !.o[thr[t].id] = with_lock(thr[t].obs)]
            /\ thr' = [thr EXCEPT ![t].pc = "done", ![t].ok = TRUE,
                                  ![t].was = thr[t].obs,
                                  ![t].ret = with_lock(thr[t].obs),
                                  ![t].locked = @ \cup {thr[t].id}]
       ELSE /\ thr' = [thr EXCEPT ![t].obs = dir.o[thr[t].id]]
            /\ dir' = dir
    /\ UNCHANGED gc
    /\ TrieUntouched

(* spin_lock(id): auto obj = atomic.load(), on an id the caller found live *)
SpinLockCall(t, id) ==
    /\ Callable(t)
    /\ id \in 1..dir.ma
    /\ dir.o[id].ref # 0
    /\ id \notin thr[t].locked
    /\ thr' = [thr EXCEPT ![t] =
                  [Enter(t, "spin_lock", "spin_lock", id) EXCEPT !.obs = dir.o[id]]]
    /\ UNCHANGED <<dir, gc>>
    /\ TrieUntouched

(* spin_lock: the exchange in the loop condition, compare_exchange_weak(obj, *)
(* obj | position_lock_mask); it is given the loaded word as it is           *)
SpinLockExchange(t) ==
    IF dir.o[thr[t].id] = thr[t].obs
    THEN /\ dir' = [dir EXCEPT !.o[thr[t].id] = with_lock(thr[t].obs)]
         /\ thr' = [thr EXCEPT ![t].pc = "done", ![t].ok = TRUE,
                               ![t].was = thr[t].obs,
                               ![t].ret = with_lock(thr[t].obs),
                               ![t].locked = @ \cup {thr[t].id}]
    ELSE /\ thr' = [thr EXCEPT ![t].pc = "spin_lock", ![t].obs = dir.o[thr[t].id]]
         /\ dir' = dir

(* spin_lock: the loop body; on a set bit it reloads and continues, which in *)
(* a do-while goes to the loop condition                                     *)
SpinLockStep(t) ==
    /\ thr[t].pc = "spin_lock"
    /\ IF thr[t].obs.lock = 1
       THEN /\ thr' = [thr EXCEPT ![t].pc = "spin_lock_cond",
                                  ![t].obs = dir.o[thr[t].id]]
            /\ dir' = dir
       ELSE SpinLockExchange(t)
    /\ UNCHANGED gc
    /\ TrieUntouched

(* spin_lock: the loop condition reached by continue *)
SpinLockCond(t) ==
    /\ thr[t].pc = "spin_lock_cond"
    /\ SpinLockExchange(t)
    /\ UNCHANGED gc
    /\ TrieUntouched

(* evacuate_region, holding the lock and no reference: info = get(id) again *)
(* and, if the id is still live where it was found, the copy to loc          *)
EvacRecheck(t, id, loc) ==
    /\ Callable(t)
    /\ id \in thr[t].locked
    /\ thr[t].held[id] = 0
    /\ dir.o[id].ref # 0
    /\ location(dir.o[id]) # loc
    /\ thr' = [thr EXCEPT ![t] =
                  [Enter(t, "move", "evac_move", id)
                      EXCEPT !.obs = dir.o[id], !.loc = loc]]
    /\ UNCHANGED <<dir, gc>>
    /\ TrieUntouched

(* evacuate_region: _obj_ids.move(lock, loc) after the copy *)
EvacMove(t) ==
    /\ thr[t].pc = "evac_move"
    /\ dir' = [dir EXCEPT !.o[thr[t].id] = set_location(@, thr[t].loc)]
    /\ thr' = [thr EXCEPT ![t].pc = "done", ![t].was = dir.o[thr[t].id]]
    /\ UNCHANGED gc
    /\ TrieUntouched

(* A directory with id 1 live at a location, r references to it, all held   *)
(* by thread 2; thread 1 holds none, as the evacuator                       *)
LockInit ==
    /\ TrieUnused
    /\ gc = NoGc
    /\ ra = NoRa
    /\ \E r \in 1..2, free2 \in BOOLEAN, loc \in Locations :
          /\ dir = [o |-> [i \in 1..MaxDirId |->
                              IF i = 1 THEN set_location(obj_val(1, r), loc)
                              ELSE ZeroSlot],
                    ff |-> IF free2 THEN 2 ELSE 0,
                    ma |-> IF free2 THEN 2 ELSE 1,
                    flags |-> 0, mutex |-> 0]
          /\ thr = [t \in Threads |-> [NoThread EXCEPT !.held[1] = IF t = 2 THEN r ELSE 0]]

LockNext ==
    \/ DirNext
    \/ \E t \in Threads :
        \/ \E id \in 1..MaxDirId : TryLock1Call(t, id)
        \/ TryLock1Step(t)
        \/ \E id \in 1..MaxDirId : SpinLockCall(t, id)
        \/ SpinLockStep(t)
        \/ SpinLockCond(t)
        \/ \E id \in 1..MaxDirId, loc \in Locations : EvacRecheck(t, id, loc)
        \/ EvacMove(t)

SpecLock == LockInit /\ [][LockNext]_vars

(* the threads that hold the location_lock of an id *)
LockHolders(id) == {t \in Threads : id \in thr[t].locked}

(* C26: for every id, at most one thread holds its move-lock at a time: once *)
(* alloc, try_lock or spin_lock has succeeded on the id, none of them        *)
(* succeeds on it for another thread before the holder's unlock              *)
C26_MutualExclusion ==
    \A id \in 1..MaxDirId : Cardinality(LockHolders(id)) <= 1


(* the ids a release is pushing or alloc has popped and not yet stored into *)
InFlight ==
    {i \in 1..MaxDirId : \E t \in Threads :
        \/ thr[t].pc \in {"release_load", "release_store", "release_cas"} /\ thr[t].id = i
        \/ thr[t].pc = "alloc_store" /\ thr[t].ff = i}

(* the freed ids: refcount 0, pushed and not popped again *)
FreedIds == {i \in 1..dir.ma : dir.o[i].ref = 0} \ InFlight

WellFormedChain(ch) ==
    /\ \A k \in 1..Len(ch) : ch[k] # -1
    /\ {ch[k] : k \in 1..Len(ch)} = FreedIds

(* C27: the free list from first_free is a chain of next pointers that ends *)
(* in 0, stays inside 1..max_allocated, and holds exactly the freed ids,    *)
(* each once                                                                *)
C27_FreeListWellFormed ==
    WellFormedChain(DirFreeChain(dir.ff, dir.ma))


(***************************************************************************)
(* The region allocator and its evacuator thread: region_allocator.hpp and *)
(* region_allocator.cpp.  Offsets and sizes are in bytes.  A region_used   *)
(* counter is kept as [p, b], the word p * pending_write + b.               *)
(***************************************************************************)

MaxRegs == 3
MaxAllocs == 4
MaxFrees == 3
MaxRaOpens == 2

(* the entries of region_used the model keeps: three more than the regions *)
(* the file grows to under RegionNext                                       *)
RegionSlots == 0..(MaxRegs + 2)

max_queue == 32
max_regions == 64
max_fill == 16777216
initial_size == 67108864
header_size == 8

InitialObjects == {0, 3, 7}
RaIds == 1..(7 + MaxAllocs)
RaSessions == {1}
ObjSizes == {16777215}

(* alloc_size: ((size + 7) & -8) + sizeof(object_header) *)
alloc_size(size) == ((size + 7) \div 8) * 8 + header_size

(* the 24-bit size field of an object_header *)
size_field(n) == n % 16777216

(* the argument of deallocate(region, used_size) is a uint32: the pending   *)
(* units of the word are above bit 32                                       *)
to_uint32(u) == u.b

Used(p, b) == [p |-> p, b |-> b]
UsedPlus(u, v) == Used(u.p + v.p, u.b + v.b)
UsedMinus(u, v) == Used(u.p - v.p, u.b - v.b)
IsZero(u) == u.p = 0 /\ u.b = 0

(* u < n for a byte count n below pending_write: a word that went below 0   *)
(* wrapped to the top of the 64 bits                                        *)
UsedBelow(u, n) == u.p = 0 /\ u.b >= 0 /\ u.b < n

(* used_size <= total_used on the words *)
UsedAtLeast(u, v) ==
    \/ u.p > v.p /\ u.p >= 0 /\ v.p >= 0
    \/ u.p = v.p /\ u.b >= v.b

NoItem == [dest_begin |-> 0, dest_end |-> 0, src_begin |-> 0, src_end |-> 0]

is_used(item) == item.dest_end > item.dest_begin

NoEvac == [pc |-> "none", item |-> 0, orig_src |-> 0, orig_dest |-> 0,
           begin |-> 0, dest |-> 0]

(* the file after the constructor found it empty *)
NewFile ==
    [region_size |-> initial_size, alloc_pos |-> 0, num_regions |-> 1,
     current_region |-> 0,
     region_used |-> [r \in RegionSlots |->
                         IF r = 0 THEN Used(0, initial_size) ELSE Used(0, 0)],
     queue |-> [q \in 0..(max_queue - 1) |-> NoItem],
     mem |-> {},
     loc |-> [i \in RaIds |-> -1]]

UnusedSlots(a) == {q \in 0..(max_queue - 1) : ~is_used(a.queue[q])}
LastOf(S) == CHOOSE q \in S : \A x \in S : x <= q

(* load_queue: the loop over the slots has no break, so it ends on the last *)
(* unused slot                                                              *)
load_queue_pos(a) == IF UnusedSlots(a) = {} THEN 0 ELSE LastOf(UnusedSlots(a))
load_queue_front(a) ==
    IF UnusedSlots(a) = {} THEN 0 ELSE (LastOf(UnusedSlots(a)) + 1) % max_queue

(* load_queue: the pending units a region gets back, one for each used item *)
(* with dest_begin in it and one for region current_region / region_size    *)
reloaded_pending(a, r) ==
    Cardinality({q \in 0..(max_queue - 1) :
                    is_used(a.queue[q]) /\ a.queue[q].dest_begin \div a.region_size = r})
    + (IF a.current_region \div a.region_size = r THEN 1 ELSE 0)

(* load_queue: val %= pending_write, then the pending units added again *)
load_queue_used(a) ==
    [r \in RegionSlots |-> Used(reloaded_pending(a, r), a.region_used[r].b)]

(* load_queue: _free_regions.set(i, region_used[i] == 0) for i < num_regions *)
load_queue_free(a) ==
    {r \in 0..(a.num_regions - 1) : IsZero(load_queue_used(a)[r])}


(* placement new of an object_header at offset off: len bytes are meant to  *)
(* be covered, size is what the 24-bit field holds                          *)
write_header(a, off, len, size, id) ==
    [a EXCEPT !.mem = {m \in @ : m.off # off}
                      \cup {[off |-> off, len |-> len, size |-> size_field(size), id |-> id]}]

(* make_available that sets the region's free bit at once *)
make_available_at_once(a, region) == [a EXCEPT !.free = @ \cup {region}]

(* make_available: the closure goes to the gc queue, which keeps it until   *)
(* the sessions active now have ended                                       *)
make_available(a, region) ==
    [a EXCEPT !.gcq = Append(@, [kind |-> "region", region |-> region,
                                 region_size |-> a.region_size, waits |-> a.sess])]

(* deallocate(region, used_size) *)
deallocate(a, region, used_size) ==
    LET stored(b) == [b EXCEPT !.region_used[region] = UsedMinus(@, Used(0, used_size)),
                               !.asserts = @ /\ UsedAtLeast(a.region_used[region],
                                                            Used(0, used_size))]
    IN  IF a.region_used[region] = Used(0, used_size)
        THEN make_available(stored(a), region)
        ELSE stored(a)

Candidates(a) ==
    {i \in 0..(a.num_regions - 1) :
        ~IsZero(a.region_used[i]) /\ UsedBelow(a.region_used[i], a.region_size)}

(* get_smallest_region: [pos, size], the first region with the least        *)
(* nonzero counter below region_size, or region 0 and region_size           *)
get_smallest_region(a) ==
    IF Candidates(a) = {} THEN [pos |-> 0, size |-> a.region_size]
    ELSE LET least == CHOOSE i \in Candidates(a) :
                 \A j \in Candidates(a) :
                     \/ a.region_used[i].b < a.region_used[j].b
                     \/ a.region_used[i].b = a.region_used[j].b /\ i <= j
         IN  [pos |-> least, size |-> a.region_used[least].b]

(* get_free_region: the first set bit below num_regions, -1 for nullopt *)
get_free_region(a) ==
    IF a.free \cap (0..(a.num_regions - 1)) = {} THEN -1
    ELSE CHOOSE i \in a.free \cap (0..(a.num_regions - 1)) :
             \A j \in a.free \cap (0..(a.num_regions - 1)) : i <= j

(* double_region_size *)
double_region_size(a) ==
    [a EXCEPT !.region_size = @ * 2,
              !.num_regions = @ \div 2,
              !.free = {i \in 0..((a.num_regions \div 2) - 1) :
                           2 * i \in a.free /\ 2 * i + 1 \in a.free},
              !.region_used = [i \in RegionSlots |->
                                  IF i < a.num_regions \div 2
                                  THEN UsedPlus(a.region_used[2 * i], a.region_used[2 * i + 1])
                                  ELSE a.region_used[i]]]

(* start_new_region, second branch: the file grows by one region and the    *)
(* old mapping is retired through the gc queue                              *)
extend_file(a) ==
    [a EXCEPT !.gcq = Append(@, [kind |-> "mapping", region |-> 0,
                                 region_size |-> a.region_size, waits |-> a.sess]),
              !.region_used[a.num_regions] = Used(0, a.region_size),
              !.current_region = a.num_regions,
              !.num_regions = @ + 1]

(* start_new_region: the last three statements *)
enter_region(a) ==
    [a EXCEPT !.region_used[a.current_region] = Used(1, a.region_size),
              !.free = @ \ {a.current_region},
              !.alloc_pos = a.current_region * a.region_size]

(* start_new_region *)
start_new_region(a) ==
    IF get_free_region(a) # -1
    THEN enter_region([a EXCEPT !.current_region = get_free_region(a)])
    ELSE IF a.num_regions = max_regions
    THEN enter_region(extend_file(double_region_size(a)))
    ELSE enter_region(extend_file(a))

(* reevaluate_free *)
reevaluate_free(a) ==
    LET todo == {i \in 0..(a.num_regions - 1) : IsZero(a.region_used[i]) /\ i \notin a.free}
        closures == [i \in 1..Cardinality(todo) |->
                        [kind |-> "region",
                         region |-> CHOOSE r \in todo :
                                        Cardinality({x \in todo : x < r}) = i - 1,
                         region_size |-> a.region_size, waits |-> a.sess]]
    IN  [a EXCEPT !.gcq = @ \o closures]

(* _pop_cond.notify_one(): a thread blocked in wait evaluates its predicate *)
(* again                                                                    *)
notify_one(a) ==
    IF a.thr.pc = "blocked" THEN [a EXCEPT !.thr.pc = "start"] ELSE a

(* push_queue *)
push_queue(a, region, used) ==
    IF is_used(a.queue[a.queue_pos]) THEN a
    ELSE notify_one(
           [a EXCEPT !.queue[a.queue_pos] =
                         [dest_begin |-> a.alloc_pos, dest_end |-> a.alloc_pos + used,
                          src_begin |-> region * a.region_size,
                          src_end |-> (region + 1) * a.region_size],
                     !.alloc_pos = @ + used,
                     !.region_used[region] = UsedPlus(@, Used(1, 0)),
                     !.queue_pos = (@ + 1) % max_queue])

available(a) == (a.current_region + 1) * a.region_size - a.alloc_pos

(* allocate_impl: the filler in the remaining space and the deallocate of   *)
(* available + pending_write                                                *)
close_region(a) ==
    deallocate(IF available(a) # 0
               THEN write_header(a, a.alloc_pos, available(a),
                                 available(a) - header_size, 0)
               ELSE a,
               a.current_region, to_uint32(Used(1, available(a))))

(* allocate_impl: reevaluate_free() if the two copies of the header differ  *)
(* in region_size, which they do when the switch doubled it                 *)
sweep_free(old_size, b) ==
    IF b.region_size # old_size THEN reevaluate_free(b) ELSE b

(* allocate_impl: the smallest region goes to the queue if it is less than  *)
(* half full                                                                *)
try_evacuate(b) ==
    IF get_smallest_region(b).size < b.region_size \div 2
    THEN push_queue(b, get_smallest_region(b).pos, get_smallest_region(b).size)
    ELSE b

(* allocate_impl, the branch taken when used_size > available *)
switch_region(a) ==
    try_evacuate(sweep_free(a.region_size, start_new_region(close_region(a))))

(* allocate: allocate_impl, the init callback that publishes the location,  *)
(* and the advance of alloc_pos                                             *)
allocate(a, id, size) ==
    LET place(b) ==
            [write_header(b, b.alloc_pos, alloc_size(size), size, id)
                EXCEPT !.loc[id] = b.alloc_pos,
                       !.alloc_pos = b.alloc_pos + alloc_size(size)]
    IN  IF alloc_size(size) > available(a) THEN place(switch_region(a)) ELSE place(a)


(* the constructor on the file f: the header is mapped, load_queue runs and *)
(* the thread is started                                                    *)
open_allocator(f, allocs, frees, opens) ==
    [open |-> TRUE,
     region_size |-> f.region_size, alloc_pos |-> f.alloc_pos,
     num_regions |-> f.num_regions, current_region |-> f.current_region,
     region_used |-> load_queue_used(f),
     queue |-> f.queue, mem |-> f.mem, loc |-> f.loc,
     free |-> load_queue_free(f),
     queue_pos |-> load_queue_pos(f), queue_front |-> load_queue_front(f),
     done |-> FALSE,
     thr |-> [NoEvac EXCEPT !.pc = "start"],
     gcq |-> << >>, sess |-> {},
     watch |-> [r \in RegionSlots |-> {}],
     asserts |-> TRUE, allocs |-> allocs, frees |-> frees, opens |-> opens]

(* the process is gone: the file stays as it is *)
closed_allocator(a) ==
    [a EXCEPT !.open = FALSE, !.free = {}, !.queue_pos = 0, !.queue_front = 0,
              !.done = FALSE, !.thr = NoEvac, !.gcq = << >>, !.sess = {},
              !.watch = [r \in RegionSlots |-> {}]]

RECURSIVE filled(_, _)
(* the allocator after objects 1..k of the largest size were allocated *)
filled(a, k) ==
    IF k = 0 THEN a ELSE allocate(filled(a, k - 1), k, 16777215)

(* ghost: for each region, the sessions that were active when its counter   *)
(* dropped to zero and have been active since; b is the allocator after a   *)
(* step from a                                                              *)
tracked(a, b) ==
    [b EXCEPT !.watch = [r \in RegionSlots |->
                            IF IsZero(b.region_used[r]) /\ ~IsZero(a.region_used[r])
                            THEN a.sess ELSE a.watch[r]]]

RaFrame ==
    /\ UNCHANGED <<dir, thr, gc>>
    /\ UNCHANGED <<objs, first_free, max_allocated, session_root, version, root_revision,
                   readers, kv, snap, last, itr, steps, probe>>

(* A new file on which the first process allocated nothing yet, filled its  *)
(* first region, or filled two regions and began the third                  *)
RegionInit ==
    /\ TrieUnused
    /\ dir = NoDir /\ thr = << >> /\ gc = NoGc
    /\ \E k \in InitialObjects : ra = filled(open_allocator(NewFile, 0, 0, 1), k)

(* the next region a switch would take exists or may be added *)
CanSwitch == get_free_region(ra) # -1 \/ ra.num_regions < MaxRegs

(* allocate(id, size, init) *)
Allocate(size) ==
    /\ ra.open /\ ~ra.done
    /\ ra.allocs < MaxAllocs
    /\ alloc_size(size) > available(ra) => CanSwitch
    /\ ra' = tracked(ra, [allocate(ra, 8 + ra.allocs, size) EXCEPT !.allocs = @ + 1])
    /\ RaFrame

(* the record whose header is at offset off *)
RecordAt(a, off) == CHOOSE m \in a.mem : m.off = off

(* sizeof(object_header) + data_capacity() of a header *)
object_size(m) == header_size + ((m.size + 7) \div 8) * 8

(* deallocate(loc), called for an id whose last reference was released *)
Deallocate(id) ==
    /\ ra.open /\ ~ra.done
    /\ ra.frees < MaxFrees
    /\ ra.loc[id] # -1
    /\ ra' = tracked(ra, [deallocate(ra, ra.loc[id] \div ra.region_size,
                                     object_size(RecordAt(ra, ra.loc[id])))
                             EXCEPT !.loc[id] = -1, !.frees = @ + 1])
    /\ RaFrame

(* the values a read of _done can give: the destructor writes it without    *)
(* the mutex                                                                *)
DoneSeen == IF ra.done THEN BOOLEAN ELSE {FALSE}

(* run_one, up to l.unlock(): the wait on _pop_cond, the test of _done and  *)
(* the take of the item at _queue_front                                     *)
ThreadWait ==
    /\ ra.open /\ ra.thr.pc = "start"
    /\ \E in_wait \in DoneSeen, in_test \in DoneSeen :
          ra' = IF ~(in_wait \/ ra.queue_front # ra.queue_pos
                             \/ is_used(ra.queue[ra.queue_front]))
                THEN [ra EXCEPT !.thr.pc = "blocked"]
                ELSE IF ~in_test
                THEN [ra EXCEPT !.thr.pc = "exited"]
                ELSE [ra EXCEPT !.thr.pc = "item", !.thr.item = ra.queue_front,
                                !.queue_front = (@ + 1) % max_queue]
    /\ RaFrame

(* run_one: if (is_used(item)) and the loads before evacuate_region *)
ThreadItem ==
    /\ ra.open /\ ra.thr.pc = "item"
    /\ ra' = IF ~is_used(ra.queue[ra.thr.item])
             THEN [ra EXCEPT !.thr = [NoEvac EXCEPT !.pc = "start"]]
             ELSE [ra EXCEPT !.thr.pc = "evac",
                             !.thr.orig_src = ra.queue[ra.thr.item].src_begin,
                             !.thr.orig_dest = ra.queue[ra.thr.item].dest_begin,
                             !.thr.begin = ra.queue[ra.thr.item].src_begin,
                             !.thr.dest = ra.queue[ra.thr.item].dest_begin]
    /\ RaFrame


(* the offsets above off at which a header was written *)
WrittenAbove(a, off, end) == {m.off : m \in {x \in a.mem : x.off > off /\ x.off < end}}

(* the header evacuate_region reads at offset off; bytes never written are  *)
(* zero, and the walk over them goes on to the next header or to end        *)
HeaderAt(a, off, end) ==
    IF \E m \in a.mem : m.off = off THEN RecordAt(a, off)
    ELSE [off |-> off, id |-> 0, size |-> 0,
          len |-> IF WrittenAbove(a, off, end) = {} THEN end - off
                  ELSE (CHOOSE o \in WrittenAbove(a, off, end) :
                            \A x \in WrittenAbove(a, off, end) : o <= x) - off]

(* the bytes the walk moves on by after the header m *)
walk_size(a, m) ==
    IF \E x \in a.mem : x.off = m.off THEN object_size(m) ELSE m.len

(* evacuate_region, one turn of its loop for the header m at begin: the     *)
(* object is copied and its id moved if the id is live at begin and the     *)
(* object fits in what is left of the reservation                           *)
evacuate_one(a, m) ==
    LET item == a.queue[a.thr.item]
        here == m.id \in RaIds /\ a.loc[m.id] = a.thr.begin
        walked(b) == [b EXCEPT !.thr.begin = @ + walk_size(a, m),
                               !.queue[a.thr.item].src_begin = a.thr.begin + walk_size(a, m)]
    IN  IF here /\ object_size(m) > item.dest_end - a.thr.dest
        THEN [a EXCEPT !.thr.pc = "finish"]
        ELSE IF here
        THEN walked([write_header(a, a.thr.dest, object_size(m), m.size, m.id)
                        EXCEPT !.queue[a.thr.item].dest_begin = a.thr.dest + object_size(m),
                               !.loc[m.id] = a.thr.dest,
                               !.thr.dest = a.thr.dest + object_size(m)])
        ELSE walked(a)

(* evacuate_region: while (begin != end) *)
EvacStep ==
    /\ ra.open /\ ra.thr.pc = "evac"
    /\ ra' = IF ra.thr.begin = ra.queue[ra.thr.item].src_end
             THEN [ra EXCEPT !.thr.pc = "finish"]
             ELSE IF ra.thr.begin > ra.queue[ra.thr.item].src_end
             THEN [ra EXCEPT !.thr.pc = "astray"]
             ELSE evacuate_one(ra, HeaderAt(ra, ra.thr.begin, ra.queue[ra.thr.item].src_end))
    /\ RaFrame

RECURSIVE fill_tail(_, _, _)
(* run_one: the fillers over what is left of the reservation from end on *)
fill_tail(a, end, dest_end) ==
    IF end > max_fill + dest_end
    THEN fill_tail([write_header(a, end, max_fill, max_fill - header_size, 0)
                       EXCEPT !.queue[a.thr.item].dest_begin = end + max_fill],
                   end + max_fill, dest_end)
    ELSE [write_header(a, end, dest_end - end, dest_end - end - header_size, 0)
             EXCEPT !.queue[a.thr.item].dest_begin = dest_end]

(* run_one: the source region's counter after the evacuation *)
settle_source(a, src_region, copied) ==
    LET src_used == a.region_used[src_region]
        left == IF a.queue[a.thr.item].src_begin - a.thr.orig_src = a.region_size
                THEN Used(0, 0)
                ELSE UsedMinus(src_used, Used(0, copied))
        stored == [a EXCEPT !.region_used[src_region] = left,
                            !.asserts = @ /\ UsedAtLeast(src_used, Used(0, copied))]
    IN  IF IsZero(src_used)
        THEN [a EXCEPT !.asserts = @ /\ UsedAtLeast(src_used, Used(0, copied))]
        ELSE IF IsZero(left) THEN make_available(stored, src_region)
        ELSE stored

(* run_one: the destination region's counter, from the value loaded before  *)
(* the source was settled                                                   *)
settle_dest(a, dest_region, used, extra) ==
    LET stored == [a EXCEPT !.region_used[dest_region] = UsedMinus(used, Used(1, extra))]
    IN  IF used = Used(1, extra) THEN make_available(stored, dest_region) ELSE stored

(* run_one after evacuate_region returned end = thr.dest, under the mutex *)
ThreadFinish ==
    /\ ra.open /\ ra.thr.pc = "finish"
    /\ LET item == ra.queue[ra.thr.item]
           end == ra.thr.dest
           src_region == ra.thr.orig_src \div ra.region_size
           dest_region == ra.thr.orig_dest \div ra.region_size
           capped == IF item.dest_end - end # 0
                     THEN fill_tail(ra, end, item.dest_end)
                     ELSE ra
           settled == settle_dest(settle_source(capped, src_region, end - ra.thr.orig_dest),
                                  dest_region, ra.region_used[dest_region],
                                  item.dest_end - end)
       IN  ra' = tracked(ra, [settled EXCEPT !.thr = [NoEvac EXCEPT !.pc = "start"]])
    /\ RaFrame

(* ~region_allocator: _done = true *)
Destructor ==
    /\ ra.open /\ ~ra.done
    /\ ra' = [ra EXCEPT !.done = TRUE]
    /\ RaFrame

(* ~region_allocator: _thread.join() returns once run() has returned *)
Join ==
    /\ ra.open /\ ra.done /\ ra.thr.pc = "exited"
    /\ ra' = closed_allocator(ra)
    /\ RaFrame

(* the process is killed *)
RaKill ==
    /\ ra.open
    /\ ra.opens < MaxRaOpens
    /\ ra' = closed_allocator(ra)
    /\ RaFrame

(* a process constructs the allocator on the file *)
RaOpen ==
    /\ ~ra.open
    /\ ra.opens < MaxRaOpens
    /\ ra' = open_allocator(ra, ra.allocs, ra.frees, ra.opens + 1)
    /\ RaFrame

(* a reader session becomes active *)
SessionLock(s) ==
    /\ ra.open /\ s \notin ra.sess
    /\ ra' = [ra EXCEPT !.sess = @ \cup {s}]
    /\ RaFrame

(* a reader session ends: the closures pushed while it was active no longer *)
(* wait for it                                                              *)
SessionUnlock(s) ==
    /\ ra.open /\ s \in ra.sess
    /\ ra' = [ra EXCEPT !.sess = @ \ {s},
                        !.watch = [r \in RegionSlots |-> @[r] \ {s}],
                        !.gcq = [k \in 1..Len(ra.gcq) |->
                                    [ra.gcq[k] EXCEPT !.waits = @ \ {s}]]]
    /\ RaFrame

(* the gc queue destroys its oldest closure: ~make_region_available sets    *)
(* the free bit if the region size is still the one it was pushed with      *)
GcRun ==
    /\ ra.open /\ ra.gcq # << >>
    /\ Head(ra.gcq).waits = {}
    /\ ra' = IF Head(ra.gcq).kind = "region" /\ Head(ra.gcq).region_size = ra.region_size
             THEN [ra EXCEPT !.gcq = Tail(@),
                             !.free = @ \cup {Head(ra.gcq).region},
                             !.asserts = @ /\ Head(ra.gcq).region \notin ra.free]
             ELSE [ra EXCEPT !.gcq = Tail(@)]
    /\ RaFrame

RegionNext ==
    \/ \E size \in ObjSizes : Allocate(size)
    \/ \E id \in RaIds : Deallocate(id)
    \/ ThreadWait
    \/ ThreadItem
    \/ EvacStep
    \/ ThreadFinish
    \/ Destructor
    \/ Join
    \/ RaKill
    \/ RaOpen
    \/ \E s \in RaSessions : SessionLock(s)
    \/ \E s \in RaSessions : SessionUnlock(s)
    \/ GcRun

SpecRegion == RegionInit /\ [][RegionNext]_vars


(* the used queue entries whose destination lies in region r *)
PendingInto(r) ==
    {q \in 0..(max_queue - 1) :
        is_used(ra.queue[q]) /\ ra.queue[q].dest_begin \div ra.region_size = r}

(* C30: while the allocator is open, the pending_write units in             *)
(* region_used[r] are the used queue entries with their destination in r,   *)
(* plus one if r is the current region; no counter went below zero and the  *)
(* assertions of deallocate and run_one held                                *)
C30_PendingBalanced ==
    ra.open =>
        /\ \A r \in RegionSlots :
              /\ ra.region_used[r].p =
                     Cardinality(PendingInto(r)) + (IF r = ra.current_region THEN 1 ELSE 0)
              /\ ra.region_used[r].b >= 0
        /\ ra.asserts


UsedEntries == {q \in 0..(max_queue - 1) : is_used(ra.queue[q])}

(* C21: a used queue entry is processed in due course by the evacuator      *)
(* thread; for that, as long as the allocator is open and an entry is used, *)
(* the thread must not have returned from run()                             *)
C21_UsedEntryHasEvacuator ==
    (ra.open /\ UsedEntries # {}) => ra.thr.pc # "exited"


(* the steps of the evacuator thread *)
ThreadNext == ThreadWait \/ ThreadItem \/ EvacStep \/ ThreadFinish

(* the evacuator thread is scheduled fairly *)
SpecRegionFair == RegionInit /\ [][RegionNext]_vars /\ WF_vars(ThreadNext)

(* C22: once the destructor has set _done, the evacuator thread leaves its  *)
(* run loop (or the process ends before), so that join returns              *)
C22_ShutdownTerminates ==
    (ra.open /\ ra.done) ~> (~ra.open \/ ra.thr.pc = "exited")


(* C29: every header written into the file describes what it covers: a      *)
(* record handed out by allocate or copied by the evacuator ends inside the *)
(* region it starts in, and a filler (id 0), whether written at a region    *)
(* switch or over the rest of an evacuation reservation, holds in its size  *)
(* field the length it covers minus the header                              *)
C29_RegionsScannable ==
    \A m \in ra.mem :
        /\ m.off \div ra.region_size = (m.off + m.len - 1) \div ra.region_size
        /\ m.id = 0 => m.size = m.len - header_size


(* the step starts allocation in a region anew *)
EntersRegion ==
    ra'.current_region # ra.current_region \/ ra'.alloc_pos < ra.alloc_pos

(* C24: in a step of the open allocator, a region gets its free bit only    *)
(* when the gc queue runs the oldest closure, which is that region's; a     *)
(* region whose counter drops to zero does not get the bit in that step;    *)
(* and allocation starts in a region only if every session that was active  *)
(* when its counter dropped to zero has ended                               *)
C24_DeferredFree ==
    [][(ra.open /\ ra'.open) =>
          /\ \A r \in ra'.free \ ra.free :
                /\ ra.gcq # << >>
                /\ Head(ra.gcq).kind = "region" /\ Head(ra.gcq).region = r
                /\ ra'.gcq = Tail(ra.gcq)
          /\ \A r \in RegionSlots :
                (~IsZero(ra.region_used[r]) /\ IsZero(ra'.region_used[r])) =>
                    r \notin ra'.free
          /\ EntersRegion => ra.watch[ra'.current_region] \cap ra'.sess = {}]_vars

(* the counter of region 1 dropped to zero while a session was active: its  *)
(* closure waits for the session in the gc queue and the region is not free *)
C24_Witness ==
    /\ ra.open
    /\ ra.current_region = 2
    /\ IsZero(ra.region_used[1])
    /\ ra.watch[1] = {1} /\ 1 \in ra.sess
    /\ 1 \notin ra.free
    /\ \E k \in 1..Len(ra.gcq) :
          ra.gcq[k].kind = "region" /\ ra.gcq[k].region = 1 /\ ra.gcq[k].waits = {1}


(***************************************************************************)
(* The region switch of allocate_impl with the process killed inside it.   *)
(* The file keeps the copy of the header that `current` selects: up to the *)
(* store to `current` that is the copy allocate_impl began with.           *)
(***************************************************************************)

SwitchStages == {"filler", "deallocate", "store"}

(* the allocator when the process is killed in the switch: after the filler *)
(* was written, after deallocate(current_region, ...) and start_new_region, *)
(* which writes the other copy, or after the store to current               *)
killed_in_switch(a, stage) ==
    IF stage = "filler"
    THEN [a EXCEPT !.mem = close_region(a).mem]
    ELSE IF stage = "deallocate"
    THEN close_region(a)
    ELSE start_new_region(close_region(a))

(* allocate(id, size, init) of an object that does not fit, cut short *)
KillInSwitch(size, stage) ==
    /\ ra.open /\ ~ra.done
    /\ ra.opens < MaxRaOpens
    /\ alloc_size(size) > available(ra) /\ CanSwitch
    /\ ra' = closed_allocator(killed_in_switch(ra, stage))
    /\ RaFrame

SwitchNext ==
    \/ RegionNext
    \/ \E size \in ObjSizes, stage \in SwitchStages : KillInSwitch(size, stage)

SpecSwitch == RegionInit /\ [][SwitchNext]_vars


(* the step runs a closure of the gc queue that sets the free bit of r *)
SetsFreeBit(r) ==
    /\ ra.open /\ ra'.open
    /\ ra.gcq # << >> /\ ra'.gcq = Tail(ra.gcq)
    /\ Head(ra.gcq).kind = "region" /\ Head(ra.gcq).region = r
    /\ Head(ra.gcq).region_size = ra.region_size

(* C31: while the allocator is open, a region in the free set has a         *)
(* region_used of 0 and is not the current region; and the free bit of a    *)
(* region is never set while it is set already                              *)
C31_FreeOnlyUnused ==
    /\ [](ra.open =>
             \A r \in ra.free : IsZero(ra.region_used[r]) /\ r # ra.current_region)
    /\ [][\A r \in RegionSlots : SetsFreeBit(r) => r \notin ra.free]_vars


(* the pending_write units load_queue is to leave in region r of the        *)
(* allocator a: one for each used queue entry with its destination in r and *)
(* one if r is the current region                                           *)
PendingOwed(a, r) ==
    Cardinality({q \in 0..(max_queue - 1) :
                    is_used(a.queue[q]) /\ a.queue[q].dest_begin \div a.region_size = r})
    + (IF r = a.current_region THEN 1 ELSE 0)

(* C32: when the allocator is opened on a file, load_queue leaves in every  *)
(* region_used the bytes the file held and exactly the pending units owed,  *)
(* and the free set is the set of regions below num_regions whose           *)
(* region_used is 0                                                         *)
C32_LoadQueueRebuilds ==
    [][(~ra.open /\ ra'.open) =>
          /\ \A r \in RegionSlots :
                ra'.region_used[r] = Used(PendingOwed(ra', r), ra.region_used[r].b)
          /\ ra'.free = {r \in 0..(ra'.num_regions - 1) : IsZero(ra'.region_used[r])}]_vars


(* header::data, the copy of the mutable header that `current` selects *)
HeaderData(a) ==
    [region_size |-> a.region_size, alloc_pos |-> a.alloc_pos,
     num_regions |-> a.num_regions, current_region |-> a.current_region,
     region_used |-> a.region_used]

(* C33: when the process ends, inside a region switch or outside one, the   *)
(* header the file selects is the one from before the switch or the one the *)
(* complete switch stores: the selected copy is not modified during the     *)
(* switch                                                                   *)
C33_SwitchAtomic ==
    [][(ra.open /\ ~ra'.open) =>
          \/ HeaderData(ra') = HeaderData(ra)
          \/ /\ CanSwitch
             /\ HeaderData(ra') = HeaderData(start_new_region(close_region(ra)))]_vars


(***************************************************************************)
(* push_queue store by store, on the file of a third process: the first    *)
(* process filled regions 0, 1 and 2; the second released two objects of   *)
(* region 1 and two of region 2, switched to region 3 and pushed region 1  *)
(* into slot 31 of the queue; both were killed.                            *)
(***************************************************************************)

PushStores == 1..6

(* deallocate(loc) for the object of id *)
released(a, id) ==
    [deallocate(a, a.loc[id] \div a.region_size, object_size(RecordAt(a, a.loc[id])))
        EXCEPT !.loc[id] = -1]

(* the second process up to its kill *)
second_process(f) ==
    closed_allocator(
        allocate(released(released(released(released(
                     open_allocator(f, 0, 0, 1), 5), 6), 8), 9),
                 5, 16777215))

(* the file the third process opens, or the one the second process opened *)
PushFiles ==
    {second_process(closed_allocator(filled(open_allocator(NewFile, 0, 0, 1), 9))),
     closed_allocator(filled(open_allocator(NewFile, 0, 0, 1), 9))}

PushInit ==
    /\ TrieUnused
    /\ dir = NoDir /\ thr = << >> /\ gc = NoGc
    /\ \E f \in PushFiles : ra = open_allocator(f, 0, 0, 1)

(* push_queue with dest_end stored first *)
push_stores_end_first(a, region, used, n) ==
    [a EXCEPT !.queue[a.queue_pos].dest_end = a.alloc_pos + used,
              !.queue[a.queue_pos].src_begin =
                  IF n >= 2 THEN region * a.region_size ELSE @,
              !.queue[a.queue_pos].src_end =
                  IF n >= 3 THEN (region + 1) * a.region_size ELSE @,
              !.queue[a.queue_pos].dest_begin = IF n >= 4 THEN a.alloc_pos ELSE @,
              !.alloc_pos = IF n >= 5 THEN @ + used ELSE @,
              !.region_used[region] = IF n >= 6 THEN UsedPlus(@, Used(1, 0)) ELSE @]

(* push_queue after the first n of its stores: dest_end = 0, src_begin,     *)
(* src_end, dest_begin, _h->alloc_pos, region_used[region]; the seventh is  *)
(* the store to dest_end that makes the slot used                           *)
push_stores(a, region, used, n) ==
    [a EXCEPT !.queue[a.queue_pos].dest_end = 0,
              !.queue[a.queue_pos].src_begin =
                  IF n >= 2 THEN region * a.region_size ELSE @,
              !.queue[a.queue_pos].src_end =
                  IF n >= 3 THEN (region + 1) * a.region_size ELSE @,
              !.queue[a.queue_pos].dest_begin = IF n >= 4 THEN a.alloc_pos ELSE @,
              !.alloc_pos = IF n >= 5 THEN @ + used ELSE @,
              !.region_used[region] = IF n >= 6 THEN UsedPlus(@, Used(1, 0)) ELSE @]

(* allocate_impl up to the call of push_queue *)
switched(a) == sweep_free(a.region_size, start_new_region(close_region(a)))

(* the next region a switch would take exists or may be added *)
CanGrow == get_free_region(ra) # -1 \/ ra.num_regions <= MaxRegs + 2

(* allocate(id, size, init) *)
PushAllocate(size) ==
    /\ ra.open /\ ~ra.done
    /\ ra.allocs < MaxAllocs
    /\ alloc_size(size) > available(ra) => CanGrow
    /\ ra' = tracked(ra, [allocate(ra, 8 + ra.allocs, size) EXCEPT !.allocs = @ + 1])
    /\ RaFrame

(* allocate(id, size, init) that switches and pushes, with the process      *)
(* killed after n stores of push_queue                                      *)
KillInPush(size, n) ==
    /\ ra.open /\ ~ra.done
    /\ ra.opens < MaxRaOpens
    /\ alloc_size(size) > available(ra) /\ CanGrow
    /\ get_smallest_region(switched(ra)).size < ra.region_size \div 2
    /\ ~is_used(ra.queue[ra.queue_pos])
    /\ ra' = closed_allocator(push_stores(switched(ra),
                                          get_smallest_region(switched(ra)).pos,
                                          get_smallest_region(switched(ra)).size, n))
    /\ RaFrame

PushNext ==
    \/ \E size \in ObjSizes : PushAllocate(size)
    \/ \E id \in RaIds : Deallocate(id)
    \/ \E size \in ObjSizes, n \in PushStores : KillInPush(size, n)
    \/ RaKill
    \/ RaOpen

SpecPush == PushInit /\ [][PushNext]_vars


(* the step is an allocate of the open allocator that enters a region *)
SwitchStep == ra.open /\ ra'.open /\ ra'.current_region # ra.current_region

(* C34: an allocate that finds the slot at the push cursor used leaves the  *)
(* queue and the cursor as they are, reserves nothing in the region it      *)
(* enters and marks no region pending but that one; and a slot that is used *)
(* on the file when the process has ended, wherever in push_queue it ended, *)
(* was used with the same four fields before                                *)
C34_PushDefers ==
    [][/\ (SwitchStep /\ is_used(ra.queue[ra.queue_pos])) =>
             /\ ra'.queue = ra.queue /\ ra'.queue_pos = ra.queue_pos
             /\ \E size \in ObjSizes :
                   ra'.alloc_pos = ra'.current_region * ra'.region_size + alloc_size(size)
             /\ \A r \in RegionSlots \ {ra'.current_region} :
                   ra'.region_used[r].p <= ra.region_used[r].p
       /\ (ra.open /\ ~ra'.open) =>
             \A q \in 0..(max_queue - 1) :
                 is_used(ra'.queue[q]) => ra'.queue[q] = ra.queue[q]]_vars

(* region 5 was entered with the cursor on the used slot 31 while region 2  *)
(* was less than half full: nothing was reserved and slot 31 is as it was   *)
C34_Witness ==
    /\ ra.open /\ ra.current_region = 5
    /\ ra.queue_pos = 31 /\ is_used(ra.queue[31]) /\ is_used(ra.queue[30])
    /\ ra.alloc_pos = 5 * ra.region_size + alloc_size(16777215)
    /\ UsedBelow(ra.region_used[2], ra.region_size \div 2) /\ ~IsZero(ra.region_used[2])


(* the region a queue entry evacuates *)
SourceOf(a, q) == a.queue[q].src_begin \div a.region_size

(* the step of the open allocator makes slot q of the queue used *)
Pushes(q) == ra.open /\ ra'.open /\ ~is_used(ra.queue[q]) /\ is_used(ra'.queue[q])

(* C35: a slot of the queue becomes used only at a region switch; its source *)
(* is a whole region other than the one entered, non-empty, less than half  *)
(* full and with the least region_used of the non-empty regions; its        *)
(* destination is that many bytes at the start of the region entered; and   *)
(* no entry that was used already has the same source                       *)
C35_EvacuationSource ==
    [][\A q \in 0..(max_queue - 1) : Pushes(q) =>
          /\ SwitchStep
          /\ SourceOf(ra', q) # ra'.current_region
          /\ ra'.queue[q].src_begin = SourceOf(ra', q) * ra'.region_size
          /\ ra'.queue[q].src_end = ra'.queue[q].src_begin + ra'.region_size
          /\ ra'.region_used[SourceOf(ra', q)].b > 0
          /\ ra'.region_used[SourceOf(ra', q)].b < ra'.region_size \div 2
          /\ \A r \in 0..(ra'.num_regions - 1) :
                \/ IsZero(ra'.region_used[r])
                \/ ra'.region_used[r].p > 0
                \/ ra'.region_used[r].b >= ra'.region_used[SourceOf(ra', q)].b
          /\ ra'.queue[q].dest_begin = ra'.current_region * ra'.region_size
          /\ ra'.queue[q].dest_end - ra'.queue[q].dest_begin =
                 ra'.region_used[SourceOf(ra', q)].b
          /\ \A u \in 0..(max_queue - 1) :
                is_used(ra.queue[u]) => SourceOf(ra, u) # SourceOf(ra', q)]_vars


(***************************************************************************)
(* One object under the evacuator and the write session: the copy of       *)
(* evacuate_region (region_allocator.cpp) against the in-place writes of   *)
(* database.hpp and release / alloc of object_db.hpp.  Memory is a row of  *)
(* cells, each holding a record [id, val]; the evacuated range is cells    *)
(* 0..1, its reservation cells 2..3, and the writer allocates from cell 4. *)
(***************************************************************************)

MaxCells == 6
MaxWrites == 2
MaxEvacAllocs == 1

EvIds == {1, 2}
EvVals == {1, 2}
no_cell == MaxCells
src_cells == Cardinality(EvIds)

NoRecord == [id |-> 0, val |-> 0]
FreedSlot == [ref |-> 0, lock |-> 0, loc |-> no_cell]

(* Both ids live in the range to evacuate, or only the first, the second on *)
(* the free list                                                            *)
EvacInit ==
    /\ TrieUnused
    /\ dir = NoDir /\ thr = << >> /\ gc = NoGc
    /\ \E v \in EvVals, two \in BOOLEAN :
          ra = [open |-> TRUE,
                o |-> [i \in EvIds |->
                          IF i = 1 \/ two THEN [ref |-> 1, lock |-> 0, loc |-> i - 1]
                          ELSE FreedSlot],
                mem |-> [c \in 0..(MaxCells - 1) |->
                            IF c = 0 \/ (c = 1 /\ two) THEN [id |-> c + 1, val |-> v]
                            ELSE NoRecord],
                content |-> [i \in EvIds |-> IF i = 1 \/ two THEN v ELSE 0],
                written |-> [i \in EvIds |-> 0],
                alloc_pos |-> 4, writes |-> 0, allocs |-> 0,
                w |-> [pc |-> "idle", id |-> 0, ptr |-> no_cell],
                e |-> [pc |-> "scan", begin |-> 0, dest |-> src_cells, id |-> 0]]

(* the writer resolves an id it holds to the address of its record *)
WriterGet(id) ==
    /\ ra.w.pc = "idle"
    /\ ra.writes < MaxWrites
    /\ ra.o[id].ref = 1 /\ ra.o[id].loc # no_cell
    /\ ra' = [ra EXCEPT !.w = [pc |-> "resolved", id |-> id, ptr |-> ra.o[id].loc]]
    /\ RaFrame

(* set_value: the refcount is 1 and the size is the same, so memcpy into    *)
(* the record at the address resolved                                       *)
WriterWrite(v) ==
    /\ ra.w.pc = "resolved"
    /\ ra' = [ra EXCEPT !.mem[ra.w.ptr].val = v,
                        !.content[ra.w.id] = v,
                        !.written[ra.w.id] = v,
                        !.writes = @ + 1,
                        !.w = [pc |-> "idle", id |-> 0, ptr |-> no_cell]]
    /\ RaFrame

(* release of the only reference: the slot becomes a free-list entry,       *)
(* whatever its lock bit was                                                *)
WriterRelease(id) ==
    /\ ra.w.pc = "idle"
    /\ ra.o[id].ref = 1 /\ ra.o[id].loc # no_cell
    /\ ra' = [ra EXCEPT !.o[id] = FreedSlot, !.content[id] = 0, !.written[id] = 0]
    /\ RaFrame

(* alloc: an id from the free list, refcount 1 and the lock bit set *)
WriterAlloc(id) ==
    /\ ra.w.pc = "idle"
    /\ ra.allocs < MaxEvacAllocs
    /\ ra.alloc_pos < MaxCells
    /\ ra.o[id].ref = 0
    /\ ra' = [ra EXCEPT !.o[id] = [ref |-> 1, lock |-> 1, loc |-> no_cell],
                        !.allocs = @ + 1,
                        !.w = [pc |-> "init", id |-> id, ptr |-> no_cell]]
    /\ RaFrame

(* allocate(id, size, init): the record is written at alloc_pos, the init   *)
(* callback moves the id there, and the lock is released                    *)
WriterPlace(v) ==
    /\ ra.w.pc = "init"
    /\ ra' = [ra EXCEPT !.mem[ra.alloc_pos] = [id |-> ra.w.id, val |-> v],
                        !.o[ra.w.id].loc = ra.alloc_pos,
                        !.o[ra.w.id].lock = 0,
                        !.content[ra.w.id] = v,
                        !.alloc_pos = @ + 1,
                        !.w = [pc |-> "idle", id |-> 0, ptr |-> no_cell]]
    /\ RaFrame

(* the id is live and at the cell the evacuator is looking at *)
LiveAt(id, cell) == id \in EvIds /\ ra.o[id].ref # 0 /\ ra.o[id].loc = cell

(* evacuate_region: the header at begin and info = _obj_ids.get(id) *)
EvacScan ==
    /\ ra.e.pc = "scan"
    /\ ra.e.begin < src_cells
    /\ ra' = IF LiveAt(ra.mem[ra.e.begin].id, ra.e.begin)
             THEN [ra EXCEPT !.e.pc = "lock", !.e.id = ra.mem[ra.e.begin].id]
             ELSE [ra EXCEPT !.e.begin = @ + 1]
    /\ RaFrame

(* evacuate_region: the lock on the id, taken if the id is live at begin    *)
(* and nobody holds the bit                                                 *)
EvacLock ==
    /\ ra.e.pc = "lock"
    /\ ra' = IF LiveAt(ra.e.id, ra.e.begin) /\ ra.o[ra.e.id].lock = 0
             THEN [ra EXCEPT !.o[ra.e.id].lock = 1, !.e.pc = "recheck"]
             ELSE [ra EXCEPT !.e.pc = "scan", !.e.begin = @ + 1, !.e.id = 0]
    /\ RaFrame

(* evacuate_region: info = _obj_ids.get(id) under the lock *)
EvacCheck ==
    /\ ra.e.pc = "recheck"
    /\ ra' = IF LiveAt(ra.e.id, ra.e.begin)
             THEN [ra EXCEPT !.e.pc = "copy"]
             ELSE [ra EXCEPT !.e.pc = "unlock"]
    /\ RaFrame

(* evacuate_region: std::memcpy(new_location, p, object_size) *)
EvacCopy ==
    /\ ra.e.pc = "copy"
    /\ ra' = [ra EXCEPT !.mem[ra.e.dest] = ra.mem[ra.e.begin], !.e.pc = "move"]
    /\ RaFrame

(* evacuate_region: _obj_ids.move(lock, {dest, _level}): the exchange puts  *)
(* the location into the slot as it is now                                  *)
EvacPublish ==
    /\ ra.e.pc = "move"
    /\ ra' = [ra EXCEPT !.o[ra.e.id].loc = ra.e.dest,
                        !.e.pc = "unlock", !.e.dest = @ + 1]
    /\ RaFrame

(* evacuate_region: the lock goes out of scope, begin moves on *)
EvacUnlock ==
    /\ ra.e.pc = "unlock"
    /\ ra' = [ra EXCEPT !.o[ra.e.id].lock = 0,
                        !.e.pc = "scan", !.e.begin = @ + 1, !.e.id = 0]
    /\ RaFrame

EvacNext ==
    \/ \E id \in EvIds : WriterGet(id)
    \/ \E v \in EvVals : WriterWrite(v)
    \/ \E id \in EvIds : WriterRelease(id)
    \/ \E id \in EvIds : WriterAlloc(id)
    \/ \E v \in EvVals : WriterPlace(v)
    \/ EvacScan
    \/ EvacLock
    \/ EvacCheck
    \/ EvacCopy
    \/ EvacPublish
    \/ EvacUnlock

SpecEvac == EvacInit /\ [][EvacNext]_vars

(* the live ids whose location is published *)
PublishedIds == {i \in EvIds : ra.o[i].ref # 0 /\ ra.o[i].loc # no_cell}

(* C23: the location the directory holds for a live id is that of a record  *)
(* whose header carries the id and whose payload is the content of the      *)
(* object                                                                   *)
C23_LocationValid ==
    \A i \in PublishedIds :
        /\ ra.mem[ra.o[i].loc].id = i
        /\ ra.mem[ra.o[i].loc].val = ra.content[i]

(* C28: what the writer wrote in place into an object is what the object's  *)
(* id leads to, as long as the object lives                                 *)
C28_InPlaceWriteKept ==
    \A i \in PublishedIds :
        ra.written[i] # 0 => ra.mem[ra.o[i].loc].val = ra.written[i]

-----------------------------------------------------------------------------
(* Publishing a root: write_session::set_root_revision against             *)
(* database::get_root_revision, statement by statement, under              *)
(* database::_root_change_mutex.  thr holds the mutex, the position of the *)
(* writer inside set_root_revision, the position of the thread inside      *)
(* get_root_revision and the references that thread was handed.            *)

MaxRootOps == 4
MaxHeld == 1

NoOwner == "none"

(* std::lock_guard<std::mutex> lock(_root_change_mutex) can be entered *)
mutex_free(m) == m = NoOwner

(* what a call reads is live: every id it can reach from ids *)
SoundFrom(ids) == \A i \in ReachFrom(ids \ {0}, {}) : objs[i].t # "free"

RootInit ==
    /\ \E S \in SUBSET Keys :
        \E p \in {populate(EmptyHeap, 0, SortKeys(S))} :
            \E q \in {set_root_revision(p.h, 0, p.root)} :
                /\ objs = q.h.o
                /\ first_free = q.h.ff
                /\ max_allocated = q.h.ma
                /\ session_root = p.root
                /\ root_revision = q.rev
                /\ kv = [k \in Keys |-> IF k \in S THEN InitialValue ELSE NoValue]
    /\ version = 0
    /\ readers = [r \in Readers |-> [open |-> FALSE, root |-> 0, pins |-> 0]]
    /\ snap = [r \in Readers |-> [k \in Keys |-> NoValue]]
    /\ last = NoCall
    /\ itr = NoItr
    /\ steps = 0
    /\ probe = NoProbe
    /\ dir = NoDir
    /\ gc = NoGc
    /\ ra = NoRa
    /\ thr = [mutex |-> NoOwner,
              w     |-> [pc |-> "idle", i |-> 0],
              g     |-> [pc |-> "idle"],
              held  |-> << >>]

(* a call of the write session outside set_root_revision *)
RootCall(ids) ==
    /\ thr.w.pc = "idle"
    /\ steps < MaxRootOps
    /\ SoundFrom(ids)
    /\ steps' = steps + 1
    /\ UNCHANGED <<readers, snap, probe, dir, thr, gc, ra>>

RootUpsert(k, v) ==
    /\ RootCall({session_root})
    /\ Private
    /\ DoUpsert(k, v)
    /\ UNCHANGED <<version, root_revision>>

RootFork(from) ==
    /\ RootCall({session_root, from})
    /\ \E r \in {fork(Heap, session_root, from)} :
        /\ r.h.ma <= MaxId
        /\ SetHeap(r.h)
        /\ session_root' = r.root
        /\ version' = r.ver
    /\ last' = [NoCall EXCEPT !.op = "fork"]
    /\ itr' = NoItr
    /\ kv' = [k \in Keys |-> get(Heap, from, to_key6(k))]
    /\ UNCHANGED root_revision

RootFrame == UNCHANGED <<session_root, version, kv, itr, readers, snap, probe, dir, gc, ra>>

HeapFrame == UNCHANGED <<objs, first_free, max_allocated>>

(* set_root_revision(i): the lock_guard is taken *)
SrrLock(i) ==
    /\ thr.w.pc = "idle"
    /\ steps < MaxRootOps
    /\ SoundFrom({i, root_revision})
    /\ mutex_free(thr.mutex)
    /\ thr' = [thr EXCEPT !.mutex = "writer", !.w = [pc |-> "test", i |-> i]]
    /\ steps' = steps + 1
    /\ HeapFrame /\ RootFrame /\ UNCHANGED <<root_revision, last>>

(* if (_db->_dbm->_root_revision != i.id) *)
SrrTest ==
    /\ thr.w.pc = "test"
    /\ thr' = [thr EXCEPT !.w.pc = IF root_revision # thr.w.i THEN "retain" ELSE "unlock"]
    /\ HeapFrame /\ RootFrame /\ UNCHANGED <<root_revision, last, steps>>

(* retain(i) *)
SrrRetain ==
    /\ thr.w.pc = "retain"
    /\ SetHeap(retain(Heap, thr.w.i))
    /\ thr' = [thr EXCEPT !.w.pc = "release"]
    /\ RootFrame /\ UNCHANGED <<root_revision, last, steps>>

(* release({_db->_dbm->_root_revision.load()}) *)
SrrRelease ==
    /\ thr.w.pc = "release"
    /\ SetHeap(db_release(Heap, root_revision))
    /\ thr' = [thr EXCEPT !.w.pc = "store"]
    /\ RootFrame /\ UNCHANGED <<root_revision, last, steps>>

(* _db->_dbm->_root_revision.store(i.id) *)
SrrStore ==
    /\ thr.w.pc = "store"
    /\ root_revision' = thr.w.i
    /\ thr' = [thr EXCEPT !.w.pc = "unlock"]
    /\ HeapFrame /\ RootFrame /\ UNCHANGED <<last, steps>>

(* the lock_guard leaves scope *)
SrrUnlock ==
    /\ thr.w.pc = "unlock"
    /\ thr' = [thr EXCEPT !.mutex = NoOwner, !.w = [pc |-> "idle", i |-> 0]]
    /\ last' = [NoCall EXCEPT !.op = "set_root_revision"]
    /\ HeapFrame /\ RootFrame /\ UNCHANGED <<root_revision, steps>>

(* database::get_root_revision: the lock_guard is taken *)
GrrLock ==
    /\ thr.g.pc = "idle"
    /\ Len(thr.held) < MaxHeld
    /\ mutex_free(thr.mutex)
    /\ thr' = [thr EXCEPT !.mutex = "getter", !.g.pc = "retain"]
    /\ HeapFrame /\ RootFrame /\ UNCHANGED <<root_revision, last, steps>>

(* if (_dbm->_root_revision) _ring->retain({_dbm->_root_revision}) *)
GrrRetain ==
    /\ thr.g.pc = "retain"
    /\ SetHeap(retain(Heap, root_revision))
    /\ thr' = [thr EXCEPT !.g.pc = "return"]
    /\ RootFrame /\ UNCHANGED <<root_revision, last, steps>>

(* return {_dbm->_root_revision}; the lock_guard leaves scope *)
GrrReturn ==
    /\ thr.g.pc = "return"
    /\ thr' = [thr EXCEPT !.mutex = IF @ = "getter" THEN NoOwner ELSE @,
                          !.g.pc = "idle",
                          !.held = Append(@, root_revision)]
    /\ HeapFrame /\ RootFrame /\ UNCHANGED <<root_revision, last, steps>>

(* the caller gives back a root it was handed: database::release *)
DropRoot ==
    /\ thr.held # << >>
    /\ SoundFrom({Head(thr.held)})
    /\ SetHeap(db_release(Heap, Head(thr.held)))
    /\ thr' = [thr EXCEPT !.held = Tail(@)]
    /\ RootFrame /\ UNCHANGED <<root_revision, last, steps>>

RootNext ==
    \/ \E k \in Keys, v \in Values : RootUpsert(k, v)
    \/ \E from \in {0, session_root, root_revision} : RootFork(from)
    \/ \E i \in {0, session_root} : SrrLock(i)
    \/ SrrTest
    \/ SrrRetain
    \/ SrrRelease
    \/ SrrStore
    \/ SrrUnlock
    \/ GrrLock
    \/ GrrRetain
    \/ GrrReturn
    \/ DropRoot

SpecRoot == RootInit /\ [][RootNext]_vars

(* the references held on id: the published root, the write session's root *)
(* and the roots handed out by get_root_revision                           *)
RootHolders(id) ==
    (IF root_revision = id THEN 1 ELSE 0)
    + (IF session_root = id THEN 1 ELSE 0)
    + Cardinality({n \in 1..Len(thr.held) : thr.held[n] = id})

(* C36: set_root_revision(i) with i other than the published root adds one *)
(* to i's refcount, takes one from the old published root's refcount and   *)
(* stores i, holding the root-change mutex throughout, and changes nothing *)
(* when i is the published root; every root handed out by                  *)
(* get_root_revision is a live id that holds the reference taken for it    *)
C36_RootSwap ==
    /\ [](\A n \in 1..Len(thr.held) :
             thr.held[n] # 0 =>
                 /\ objs[thr.held[n]].t # "free"
                 /\ (thr.w.pc = "idle" => objs[thr.held[n]].ref >= RootHolders(thr.held[n])))
    /\ [][/\ (thr.w.pc # "idle" \/ thr'.w.pc # "idle") =>
                (thr.mutex = "writer" \/ thr'.mutex = "writer")
          /\ (thr.w.pc = "test" /\ thr'.w.pc # "test" /\ root_revision = thr.w.i) =>
                (thr'.w.pc = "unlock" /\ HeapNext = Heap /\ root_revision' = root_revision)
          /\ (thr.w.pc = "retain" /\ thr'.w.pc = "release" /\ thr.w.i # 0) =>
                objs'[thr.w.i].ref = objs[thr.w.i].ref + 1
          /\ (thr.w.pc = "release" /\ thr'.w.pc = "store") =>
                /\ root_revision # 0 =>
                      objs'[root_revision].ref = objs[root_revision].ref - 1
                /\ thr.w.i # 0 => objs'[thr.w.i].ref = objs[thr.w.i].ref
          /\ (thr.w.pc = "store" /\ thr'.w.pc = "unlock") =>
                root_revision' = thr.w.i]_vars

C36_Witness ==
    /\ thr.w.pc = "unlock"
    /\ root_revision = thr.w.i
    /\ root_revision # 0
    /\ thr.held # << >>
    /\ Head(thr.held) # 0
    /\ Head(thr.held) # root_revision

-----------------------------------------------------------------------------
(* write_session::fork *)

(* what a node holds, apart from its reference count and its version *)
Content(n) ==
    IF n.t = "inner" THEN [t |-> n.t, key |-> n.key, val |-> n.val, br |-> n.br]
    ELSE IF n.t = "leaf" THEN [t |-> n.t, key |-> n.key, data |-> n.data]
    ELSE [t |-> n.t]

(* the id was not in use before the step *)
FreshId(id) == id > max_allocated \/ objs[id].t = "free"

(* the step was fork(from) *)
Forked(from) ==
    /\ session_root # 0 =>
          IF objs[session_root].ref = 1 THEN objs'[session_root].t = "free"
          ELSE objs'[session_root].ref = objs[session_root].ref - 1
    /\ IF from = 0 THEN session_root' = 0
       ELSE /\ session_root' # 0
            /\ FreshId(session_root')
            /\ Content(objs'[session_root']) = Content(objs[from])
            /\ objs[from].t = "inner" =>
                  (version' > objs[from].ver /\ objs'[session_root'].ver = version')

(* C37: fork(base) of a non-null base makes the session root a fresh node  *)
(* with base's edge label, value and branches (the same child ids),        *)
(* releases the previous session root and, for an inner base, leaves the   *)
(* writer's version above base's, so that no call of the write session     *)
(* afterwards changes a node reachable from the base it forked (here the   *)
(* published root) in place; fork of a null base leaves a null root        *)
C37_Fork ==
    [][/\ (last'.op = "fork" /\ steps' = steps + 1) =>
              \E from \in {0, session_root, root_revision} : Forked(from)
       /\ (steps' = steps + 1 /\ root_revision # 0) =>
              \A n \in ReachFrom({root_revision}, {}) :
                  objs'[n].t # "free" => Content(objs'[n]) = Content(objs[n])]_vars

-----------------------------------------------------------------------------
(* write_session::recursive_retain *)

(* the references to id that recursive_retain(root_revision) meets: the    *)
(* call on the root and one per value slot or branch that names id in a    *)
(* node the root leads to                                                  *)
Visits(id) ==
    (IF id = root_revision THEN 1 ELSE 0)
    + Cardinality({p \in PublishedNodes : objs[p].t = "inner" /\ objs[p].val = id})
    + Cardinality(UNION {{<<p, b>> : b \in {c \in DOMAIN objs[p].br : objs[p].br[c] = id}} :
                            p \in {q \in PublishedNodes : objs[q].t = "inner"}})

(* C38: recursive_retain(r) returns on every finite trie; it retains r     *)
(* once and goes into the value and into each child of a node once, on the *)
(* first visit only, so that after start_collect_garbage and               *)
(* recursive_retain(root) every node the root leads to has refcount 1 plus *)
(* the number of references to it                                          *)
C38_RecursiveRetain ==
    /\ gc.pc # "stuck"
    /\ gc.pc = "marked" => \A n \in PublishedNodes : objs[n].ref = 1 + Visits(n)

-----------------------------------------------------------------------------
(* Descending iteration: session::last and iterator::operator--            *)

(* session::last *)
session_last(h, root) == IF root = 0 THEN <<>> ELSE find_last(h, root, <<>>)

RECURSIVE prev_find_last(_, _)
(* the "find last" loop of session::prev: from the branch at the back of   *)
(* the path down the last branches to a leaf                               *)
prev_find_last(h, path) ==
    LET c == path[Len(path)]
        n == h.o[c[1]]
    IN  IF n.t = "leaf" THEN path
        ELSE IF c[2] \notin DOMAIN n.br THEN UBPath
        ELSE LET b  == n.br[c[2]]
                 bn == h.o[b]
             IN  IF bn.t = "leaf" THEN Push(path, b, -1)
                 ELSE prev_find_last(h, Push(path, b, reverse_lower_bound(bn, 63)))

RECURSIVE prev_past_value(_, _)
(* prev that goes back to the parent where it would stop at the value of   *)
(* an inner node                                                           *)
prev_past_value(h, path) ==
    IF path = <<>> THEN <<>>
    ELSE LET c == path[Len(path)]
             n == h.o[c[1]]
         IN  IF c[2] <= 0 THEN prev_past_value(h, Pop(path))
             ELSE IF reverse_lower_bound(n, c[2] - 1) >= 0
             THEN prev_find_last(h, SetBack(path, reverse_lower_bound(n, c[2] - 1)))
             ELSE prev_past_value(h, Pop(path))

RECURSIVE prev(_, _)
(* session::prev *)
prev(h, path) ==
    IF path = <<>> THEN <<>>
    ELSE LET c == path[Len(path)]
             n == h.o[c[1]]
         IN  IF c[2] <= 0
             THEN IF c[2] = 0 /\ n.val # 0 THEN SetBack(path, -1)
                  ELSE prev(h, Pop(path))
             ELSE IF reverse_lower_bound(n, c[2] - 1) >= 0
             THEN prev_find_last(h, SetBack(path, reverse_lower_bound(n, c[2] - 1)))
             ELSE IF n.val # 0 THEN SetBack(path, -1)
             ELSE prev(h, Pop(path))

(* session::last *)
DoLast ==
    \E p \in Outcomes(session_last(Heap, session_root)) : Position("last", <<>>, p)

(* iterator::operator-- on a valid iterator *)
DoDecr ==
    /\ itr.path # <<>>
    /\ \E q \in Outcomes(prev(Heap, itr.path)) :
          itr' = [itr EXCEPT !.path = q, !.seen = @ \o Shown(q), !.vals = @ \o ShownValue(q)]
    /\ UNCHANGED <<objs, first_free, max_allocated, session_root, kv>>

DescLast == DoLast /\ IterFrame

DescDecr == itr.mode = "last" /\ DoDecr /\ IterFrame

DescNext ==
    \/ \E k \in Keys, v \in Values : IterUpsert(k, v)
    \/ \E k \in Keys : IterRemove(k)
    \/ DescLast
    \/ DescDecr

SpecDesc == IterInit /\ [][DescNext]_vars

(* the stored keys from the greatest to the smallest *)
Descending ==
    [i \in 1..Cardinality(Stored) |-> SortKeys(Stored)[Cardinality(Stored) + 1 - i]]

(* C39: from last(), -- until invalid shows every stored key exactly once, *)
(* in descending order of the 8-bit keys and with its value; the key in an *)
(* inner node's value slot comes after every key below that node's         *)
(* branches                                                                *)
C39_BackwardScan ==
    itr.mode = "last" =>
        /\ Len(itr.seen) <= Cardinality(Stored)
        /\ itr.seen = SubSeq(Descending, 1, Len(itr.seen))
        /\ \A i \in 1..Len(itr.seen) : itr.vals[i] = kv[itr.seen[i]]
        /\ itr.path = <<>> => itr.seen = Descending

(* a scan of all five keys ended with the key held in an inner node's      *)
(* value slot, after a write changed the trie                              *)
C39_Witness ==
    /\ itr.mode = "last" /\ itr.path = <<>> /\ Len(itr.seen) = Cardinality(Keys)
    /\ itr.seen[Len(itr.seen)] = <<0>>
    /\ \E n \in 1..max_allocated :
          /\ objs[n].t = "inner" /\ objs[n].val # 0
          /\ objs[objs[n].val].data = kv[<<0>>]
    /\ steps = 1

-----------------------------------------------------------------------------
(* session::find *)

RECURSIVE find_from(_, _, _, _)
(* session::find(id root, string_view key), from its loop on.  Where the   *)
(* key ends at an inner node it goes on to the node's value without        *)
(* pushing the inner node.                                                 *)
find_from(h, root, key, path) ==
    LET n == h.o[root] IN
    IF n.t = "leaf" THEN
        (IF n.key = key THEN Push(path, root, -1) ELSE <<>>)
    ELSE IF Len(key) < Len(n.key) THEN <<>>
    ELSE IF key = n.key THEN
        (IF n.val = 0 THEN <<>> ELSE find_from(h, n.val, <<>>, path))
    ELSE IF common_prefix(key, n.key) # n.key THEN <<>>
    ELSE IF ~has_branch(n, key[Len(n.key) + 1]) THEN <<>>
    ELSE find_from(h, n.br[key[Len(n.key) + 1]], Tail2(key, Len(n.key) + 1),
                   Push(path, root, key[Len(n.key) + 1]))

(* session::find(string_view key) *)
find(h, root, key) == IF root = 0 THEN <<>> ELSE find_from(h, root, to_key6(key), <<>>)

DoFind(k) == Position("find", k, find(Heap, session_root, k))

IterFind(k) == DoFind(k) /\ IterFrame

FindNext ==
    \/ \E k \in Keys, v \in Values : IterUpsert(k, v)
    \/ \E k \in Keys : IterRemove(k)
    \/ \E k \in QueryKeys : IterFind(k)

SpecFind == IterInit /\ [][FindNext]_vars

(* C40: find(k) of a stored key k is a valid iterator with key() = k and   *)
(* value() = get(k), also when k is held in an inner node's value slot;    *)
(* find of a key that is not stored is invalid                             *)
C40_Find ==
    itr.mode = "find" =>
        IF itr.arg \in Stored
        THEN /\ itr.path # <<>>
             /\ itr.seen = <<itr.arg>>
             /\ itr.vals = <<kv[itr.arg]>>
             /\ itr.vals = <<get(Heap, session_root, to_key6(itr.arg))>>
        ELSE itr.path = <<>>

====
